---- MODULE Spec2Model ----
(***************************************************************************)
(* Swanson ATDD orchestrator (src/src/swanson/loop.py): the per-story      *)
(* phase state machine with one bounded fix, the regression harness, and   *)
(* the main loop over the PRD queue with the state store                   *)
(* (src/src/swanson/state_manager.py) and the history log                  *)
(* (src/src/swanson/history_logger.py).                                    *)
(*                                                                         *)
(* Spec: a caller of the library functions.  A call of execute_story_loop, *)
(* execute_story_with_regression or run_regression_tests is one action.    *)
(* What the external collaborators answer (does the test file exist,       *)
(* pytest's exit code, the text pytest prints, a timeout) is drawn with \E *)
(* inside the action.  Every call leaves its result in `result` and the    *)
(* collaborator calls it made, in order, in `trace`.                       *)
(*                                                                         *)
(* SpecMain: one run of main(), one action per step of its loop body.      *)
(***************************************************************************)
EXTENDS Integers, Sequences, FiniteSets, TLC

VARIABLES
    phase_storage,  \* loop.py _phase_storage: story id -> phase, None if untracked
    call,           \* the call in hand and what it found on disk; Idle between calls
    result,         \* what that call returned or raised
    trace,          \* the collaborator calls of that call (of main: of its last step)
    \* ---- the run of main()
    pc,             \* main's position
    exit_code,      \* None while running, then the process's exit status
    state,          \* StateManager.state, in memory
    state_file,     \* state.json on disk, NoFile if absent
    prd_stories,    \* the story ids each PRD file lists (its "userStories")
    saving,         \* the _save_state in progress: its position and its temp file
    prds,           \* the *.json files in prds/
    archive,        \* the files in prds/archive/
    tests,          \* tests/test_<id>.py: story id -> content, None if absent
    regression,     \* tests/regression/: [dir, files: story id -> content or None]
    history,        \* history.md: the entries appended so far
    commits,        \* the git commits made, in order
    locals,         \* main's local variables
    finished        \* <<PRD, story, "DONE" (its tests verified) or "BLOCKED">>, as reached

libVars == <<call, result>>
mainVars == <<pc, exit_code, state, state_file, prd_stories, saving, prds, archive, tests,
              regression, history, commits, locals, finished>>
vars == <<phase_storage, trace, libVars, mainVars>>

None == "None"

(***************************************************************************)
(* Bounds of the model.                                                    *)
(***************************************************************************)
MaxLineLen == 2     \* words on one line of pytest output
MaxLines == 1       \* lines of one captured pytest output
MaxStories == 1     \* stories in one PRD
MaxSessions == 2    \* sessions of one run of main()
MaxPrdStories == 2  \* story entries of one PRD file handed to the StateManager alone
MaxIdLen == 3       \* characters of a story id handed to move_test_to_regression
MaxHistory == 3     \* entries logged by a caller of the HistoryLogger alone

Stories == {"US-1", "US-2"}

(***************************************************************************)
(* Program constants.                                                      *)
(***************************************************************************)
valid_phases == {"test", "implement", "fix"}
ExitOk == 0                 \* pytest: all tests passed
ExitNoTestsCollected == 5   \* pytest: no tests collected

\* Phases a caller may pass: the valid ones and one that is not.
PhaseArgs == valid_phases \cup {"deploy"}

\* pytest exit codes: passed, tests failed, interrupted/collection error, none collected
ExitCodes == {ExitOk, 1, 2, ExitNoTestsCollected}

\* What a run of the regression suite under timeout=300 can end with.
TimedOut == "timeout"
RegOutcomes == {"rc0", "rc1", "rc2", "rc5", TimedOut}
ExitCodeOf(o) ==
    CASE o = "rc0" -> ExitOk
      [] o = "rc1" -> 1
      [] o = "rc2" -> 2
      [] o = "rc5" -> ExitNoTestsCollected

(***************************************************************************)
(* Captured pytest output: the lines of stdout + "\n" + stderr, each line  *)
(* the sequence of its whitespace-separated words.                         *)
(***************************************************************************)
FAILED == "FAILED"
RegressionTest == "tests/regression/test_a.py::test_x"
Percent == "[100%]"
Words == {FAILED, RegressionTest, Percent}

\* `"FAILED" in line` and `"tests/regression/" in line`: substring tests
HasFailed(line) == \E i \in 1..Len(line) : line[i] = FAILED
HasRegressionPath(line) == \E i \in 1..Len(line) : line[i] = RegressionTest

OutputLines == UNION {[1..n -> Words] : n \in 0..MaxLineLen}
TestOutputs == UNION {[1..n -> OutputLines] : n \in 1..MaxLines}

(***************************************************************************)
(* Results and trace events.                                               *)
(***************************************************************************)
Return(v) == [kind |-> "return", val |-> v]
Raise(e, m) == [kind |-> "raise", exc |-> e, msg |-> m]

Ev(op, story, arg, out) == [op |-> op, story |-> story, arg |-> arg, out |-> out]
NoOut == << >>

\* msg is the sequence of the message's fragments
Contains(msg, frag) ==
    \E i \in 1..(Len(msg) - Len(frag) + 1) :
        \A j \in 1..Len(frag) : msg[i + j - 1] = frag[j]

(***************************************************************************)
(* track_phase / get_current_phase                                         *)
(***************************************************************************)
\* Mutant: the phase is stored before it is validated.
track_phase_stores_first(storage, story_id, phase) ==
    [storage |-> [storage EXCEPT ![story_id] = phase], res |-> IF phase \in valid_phases THEN Return(None) ELSE Raise("ValueError", <<"Invalid phase", phase>>), trace |-> << >>]

track_phase(storage, story_id, phase) ==
    IF phase \notin valid_phases
    THEN [storage |-> storage,
          res |-> Raise("ValueError", <<"Invalid phase", phase>>),
          trace |-> << >>]
    ELSE [storage |-> [storage EXCEPT ![story_id] = phase],
          res |-> Return(None),
          trace |-> <<Ev("track_phase", story_id, phase, NoOut)>>]

get_current_phase(storage, story_id) == storage[story_id]

\* Mutant: a missing test file is reported as a failing run, not raised.
run_story_tests_missing_is_failure(story_id, exists, rc) ==
    [res |-> Return(exists /\ rc = ExitOk),
     trace |-> <<Ev("pytest_story", story_id,
                    IF exists /\ rc = ExitOk THEN "pass" ELSE "fail", NoOut)>>]

(***************************************************************************)
(* run_story_tests: FileNotFoundError if tests/test_<id>.py is missing,    *)
(* else one pytest run; True exactly for exit code 0.                      *)
(***************************************************************************)
run_story_tests(story_id, exists, rc) ==
    IF ~exists
    THEN [res |-> Raise("FileNotFoundError", <<"Test file not found:", story_id>>),
          trace |-> << >>]
    ELSE [res |-> Return(rc = ExitOk),
          trace |-> <<Ev("pytest_story", story_id,
                         IF rc = ExitOk THEN "pass" ELSE "fail", NoOut)>>]

(***************************************************************************)
(* attempt_fix_with_context: the placeholder re-runs the story tests; a    *)
(* missing test file counts as a failed fix.                               *)
(***************************************************************************)
attempt_fix_with_context(story_id, test_output, error_type, exists, rc) ==
    LET r == run_story_tests(story_id, exists, rc)
        ev == Ev("attempt_fix_with_context", story_id, error_type, test_output)
    IN  [res |-> IF r.res.kind = "raise" THEN Return(FALSE) ELSE r.res,
         trace |-> <<ev>> \o r.trace]

(***************************************************************************)
(* execute_story_loop(story_id, phase).  exists: tests/test_<id>.py is     *)
(* there; rc1: exit code of the verification run; out: what the second,    *)
(* output-capturing pytest run prints; rc2: exit code of the run inside    *)
(* the fix attempt.                                                        *)
(***************************************************************************)
FixFailedMessage(story_id) ==
    <<"Story", story_id,
      "failed: Tests failing after implementation and automatic fix attempt.",
      "Human intervention required", "to resolve test failures.">>

\* Mutant: the old gate "tests must fail before implementation".
test_phase_must_fail_first(storage, story_id, exists, rc1) ==
    LET r == run_story_tests(story_id, exists, rc1)
    IN  [storage |-> storage,
         res |-> IF r.res.kind = "raise" THEN r.res
                 ELSE IF r.res.val
                 THEN Raise("RuntimeError",
                            <<"Story", story_id, "tests pass before implementation">>)
                 ELSE Return([story_id |-> story_id, phase |-> "test",
                              tests_pass |-> FALSE, blocked |-> FALSE]),
         trace |-> r.trace]

\* loop.py 183-201: the TEST phase
test_phase(storage, story_id, exists, rc1) ==
    LET r == run_story_tests(story_id, exists, rc1)
    IN  [storage |-> storage,
         res |-> IF r.res.kind = "raise" THEN r.res
                 ELSE Return([story_id |-> story_id, phase |-> "test",
                              tests_pass |-> r.res.val, blocked |-> FALSE]),
         trace |-> r.trace]

\* Mutant: a failed fix is attempted a second time before giving up.
fix_branch_retry(storage, story_id, exists, out, rc2) ==
    LET cap == Ev("pytest_story", story_id, "capture", out)
        t1  == track_phase(storage, story_id, "fix")
        f   == attempt_fix_with_context(story_id, out, "test_failure", exists, rc2)
        g   == attempt_fix_with_context(story_id, out, "test_failure", exists, rc2)
    IN  [storage |-> t1.storage,
         res |-> IF f.res.val
                 THEN Return([story_id |-> story_id, phase |-> "fix",
                              tests_pass |-> TRUE, fix_applied |-> TRUE,
                              blocked |-> FALSE])
                 ELSE Raise("RuntimeError", FixFailedMessage(story_id)),
         trace |-> <<cap>> \o t1.trace \o f.trace
                   \o (IF f.res.val THEN << >> ELSE g.trace)]

\* Mutant: the fix is called without the captured output.
fix_branch_no_output(storage, story_id, exists, out, rc2) ==
    LET cap == Ev("pytest_story", story_id, "capture", out)
        t1  == track_phase(storage, story_id, "fix")
        f   == attempt_fix_with_context(story_id, NoOut, "test_failure", exists, rc2)
    IN  [storage |-> t1.storage,
         res |-> IF f.res.val
                 THEN Return([story_id |-> story_id, phase |-> "fix",
                              tests_pass |-> TRUE, fix_applied |-> TRUE,
                              blocked |-> FALSE])
                 ELSE Raise("RuntimeError", FixFailedMessage(story_id)),
         trace |-> <<cap>> \o t1.trace \o f.trace]

\* Mutant: the transition to the fix phase is not tracked.
fix_branch_no_transition(storage, story_id, exists, out, rc2) ==
    LET cap == Ev("pytest_story", story_id, "capture", out)
        f   == attempt_fix_with_context(story_id, out, "test_failure", exists, rc2)
    IN  [storage |-> storage,
         res |-> IF f.res.val
                 THEN Return([story_id |-> story_id, phase |-> "fix",
                              tests_pass |-> TRUE, fix_applied |-> TRUE,
                              blocked |-> FALSE])
                 ELSE Raise("RuntimeError", FixFailedMessage(story_id)),
         trace |-> <<cap>> \o f.trace]

\* loop.py 217-256: the verification run failed
fix_branch(storage, story_id, exists, out, rc2) ==
    LET cap == Ev("pytest_story", story_id, "capture", out)
        t1  == track_phase(storage, story_id, "fix")
        f   == attempt_fix_with_context(story_id, out, "test_failure", exists, rc2)
    IN  [storage |-> t1.storage,
         res |-> IF f.res.val
                 THEN Return([story_id |-> story_id, phase |-> "fix",
                              tests_pass |-> TRUE, fix_applied |-> TRUE,
                              blocked |-> FALSE])
                 ELSE Raise("RuntimeError", FixFailedMessage(story_id)),
         trace |-> <<cap>> \o t1.trace \o f.trace]

\* loop.py 205-259: the IMPLEMENT phase
implement_phase(storage, story_id, exists, rc1, out, rc2) ==
    LET r == run_story_tests(story_id, exists, rc1)
        f == fix_branch(storage, story_id, exists, out, rc2)
    IN  IF r.res.kind = "raise"
        THEN [storage |-> storage, res |-> r.res, trace |-> r.trace]
        ELSE IF r.res.val
        THEN [storage |-> storage,
              res |-> Return([story_id |-> story_id, phase |-> "implement",
                              tests_pass |-> TRUE, blocked |-> FALSE]),
              trace |-> r.trace]
        ELSE [storage |-> f.storage, res |-> f.res, trace |-> r.trace \o f.trace]

\* loop.py 261-268: any other (valid) phase
fix_phase_direct(storage, story_id) ==
    LET t1 == track_phase(storage, story_id, "fix")
    IN  [storage |-> t1.storage,
         res |-> Return([story_id |-> story_id, phase |-> "fix",
                         blocked |-> FALSE]),
         trace |-> t1.trace]

execute_story_loop(storage, story_id, phase, exists, rc1, out, rc2) ==
    LET t0 == track_phase(storage, story_id, phase)
        b  == CASE phase = "test" -> test_phase(t0.storage, story_id, exists, rc1)
                [] phase = "implement" ->
                       implement_phase(t0.storage, story_id, exists, rc1, out, rc2)
                [] OTHER -> fix_phase_direct(t0.storage, story_id)
    IN  IF t0.res.kind = "raise" THEN t0
        ELSE [storage |-> b.storage, res |-> b.res, trace |-> t0.trace \o b.trace]

\* Mutant: pytest is run whether or not tests/regression exists.
run_regression_tests_no_dir_check(story_id, dir_exists, outcome) ==
    IF outcome = TimedOut
    THEN [res |-> Raise("TimeoutExpired", <<"pytest tests/regression", "timed out">>),
          trace |-> <<Ev("pytest_regression", story_id, "timeout", NoOut)>>]
    ELSE LET ok == dir_exists /\ (ExitCodeOf(outcome) = ExitOk
                                  \/ ExitCodeOf(outcome) = ExitNoTestsCollected)
         IN  [res |-> Return(ok),
              trace |-> <<Ev("pytest_regression", story_id,
                             IF ok THEN "pass" ELSE "fail", NoOut)>>]

\* Mutant: an empty suite (no tests collected) counts as a failure.
run_regression_tests_empty_suite_fails(story_id, dir_exists, outcome) ==
    IF ~dir_exists
    THEN [res |-> Return(TRUE), trace |-> << >>]
    ELSE IF outcome = TimedOut
    THEN [res |-> Raise("TimeoutExpired", <<"pytest tests/regression", "timed out">>),
          trace |-> <<Ev("pytest_regression", story_id, "timeout", NoOut)>>]
    ELSE LET ok == ExitCodeOf(outcome) = ExitOk
         IN  [res |-> Return(ok),
              trace |-> <<Ev("pytest_regression", story_id,
                             IF ok THEN "pass" ELSE "fail", NoOut)>>]

(***************************************************************************)
(* run_regression_tests: vacuous pass without tests/regression; otherwise  *)
(* one pytest run under timeout=300, whose TimeoutExpired is not caught.   *)
(***************************************************************************)
run_regression_tests(story_id, dir_exists, outcome) ==
    IF ~dir_exists
    THEN [res |-> Return(TRUE), trace |-> << >>]
    ELSE IF outcome = TimedOut
    THEN [res |-> Raise("TimeoutExpired", <<"pytest tests/regression", "timed out">>),
          trace |-> <<Ev("pytest_regression", story_id, "timeout", NoOut)>>]
    ELSE LET ok == ExitCodeOf(outcome) = ExitOk
                   \/ ExitCodeOf(outcome) = ExitNoTestsCollected
         IN  [res |-> Return(ok),
              trace |-> <<Ev("pytest_regression", story_id,
                             IF ok THEN "pass" ELSE "fail", NoOut)>>]

get_regression_failure_context(story_id, failing_test) ==
    <<"Story", story_id, "broke regression test", failing_test>>

\* the placeholder re-runs the regression suite
attempt_regression_fix(story_id, test_output, error_type, dir_exists, outcome) ==
    LET r == run_regression_tests(story_id, dir_exists, outcome)
        ev == Ev("attempt_regression_fix", story_id, error_type, test_output)
    IN  [res |-> r.res, trace |-> <<ev>> \o r.trace]

(***************************************************************************)
(* The failing test's name from the captured output (loop.py 430-434):     *)
(* the first line with "FAILED" and "tests/regression/" in it decides;     *)
(* line.split("FAILED")[1].strip().split()[0] is the first word between    *)
(* the first FAILED and the next; with no word there, [0] is an            *)
(* IndexError.                                                             *)
(***************************************************************************)
FirstFailedAt(line) ==
    CHOOSE k \in 1..Len(line) :
        line[k] = FAILED /\ \A j \in 1..(k - 1) : line[j] # FAILED

WordAfterFailed(line) ==
    LET k == FirstFailedAt(line)
    IN  IF k < Len(line) /\ line[k + 1] # FAILED
        THEN Return(line[k + 1])
        ELSE Raise("IndexError", <<"list index out of range">>)

RECURSIVE extract_failing_test(_, _)
extract_failing_test(test_output, i) ==
    IF i > Len(test_output) THEN Return("unknown")
    ELSE IF HasFailed(test_output[i]) /\ HasRegressionPath(test_output[i])
    THEN WordAfterFailed(test_output[i])
    ELSE extract_failing_test(test_output, i + 1)

RegressionFixFailedMessage(story_id, failing_test) ==
    <<"Regression tests failed after implementing", story_id, ".">>
    \o get_regression_failure_context(story_id, failing_test)
    \o <<".", "Automatic fix attempt failed.", "Human intervention required",
         "to resolve regression failure.">>

(***************************************************************************)
(* execute_story_with_regression(story_id).  reg1: how the regression run  *)
(* ends; out: what the output-capturing regression run prints; reg2: how   *)
(* the run inside the regression fix ends.                                 *)
(***************************************************************************)
\* Mutant: a failed regression fix is attempted a second time.
regression_fix_branch_retry(story_id, dir_exists, out, reg2) ==
    LET cap == Ev("pytest_regression", story_id, "capture", out)
        f   == attempt_regression_fix(story_id, out, "regression_failure",
                                      dir_exists, reg2)
        n   == extract_failing_test(out, 1)
        tr  == <<cap>> \o f.trace
    IN  IF f.res.kind = "raise" THEN [res |-> f.res, trace |-> tr]
        ELSE IF f.res.val
        THEN [res |-> Return([story_id |-> story_id, tests_pass |-> TRUE,
                              regression_pass |-> TRUE,
                              ready_for_commit |-> TRUE,
                              fix_applied |-> TRUE]),
              trace |-> tr]
        ELSE IF n.kind = "raise" THEN [res |-> n, trace |-> tr \o f.trace]
        ELSE [res |-> Raise("RuntimeError",
                            RegressionFixFailedMessage(story_id, n.val)),
              trace |-> tr \o f.trace]

\* loop.py 401-442: the regression run failed
regression_fix_branch(story_id, dir_exists, out, reg2) ==
    LET cap == Ev("pytest_regression", story_id, "capture", out)
        f   == attempt_regression_fix(story_id, out, "regression_failure",
                                      dir_exists, reg2)
        n   == extract_failing_test(out, 1)
        tr  == <<cap>> \o f.trace
    IN  IF f.res.kind = "raise" THEN [res |-> f.res, trace |-> tr]
        ELSE IF f.res.val
        THEN [res |-> Return([story_id |-> story_id, tests_pass |-> TRUE,
                              regression_pass |-> TRUE,
                              ready_for_commit |-> TRUE,
                              fix_applied |-> TRUE]),
              trace |-> tr]
        ELSE IF n.kind = "raise" THEN [res |-> n, trace |-> tr]
        ELSE [res |-> Raise("RuntimeError",
                            RegressionFixFailedMessage(story_id, n.val)),
              trace |-> tr]

\* loop.py 389-442: the story tests passed
regression_stage(story_id, dir_exists, reg1, out, reg2) ==
    LET g == run_regression_tests(story_id, dir_exists, reg1)
        f == regression_fix_branch(story_id, dir_exists, out, reg2)
    IN  IF g.res.kind = "raise" THEN g
        ELSE IF g.res.val
        THEN [res |-> Return([story_id |-> story_id, tests_pass |-> TRUE,
                              regression_pass |-> TRUE,
                              ready_for_commit |-> TRUE]),
              trace |-> g.trace]
        ELSE [res |-> f.res, trace |-> g.trace \o f.trace]

\* Mutant: the regression suite is run even when the story tests failed.
execute_story_with_regression_unconditional(story_id, exists, rc, dir_exists, reg1, out, reg2) ==
    LET s == run_story_tests(story_id, exists, rc)
        g == regression_stage(story_id, dir_exists, reg1, out, reg2)
    IN  IF s.res.kind = "raise" THEN s
        ELSE [res |-> g.res, trace |-> s.trace \o g.trace]

execute_story_with_regression(story_id, exists, rc, dir_exists, reg1, out, reg2) ==
    LET s == run_story_tests(story_id, exists, rc)
        g == regression_stage(story_id, dir_exists, reg1, out, reg2)
    IN  IF s.res.kind = "raise" THEN s
        ELSE IF ~s.res.val
        THEN [res |-> Return([story_id |-> story_id, tests_pass |-> FALSE,
                              regression_pass |-> FALSE,
                              ready_for_commit |-> FALSE]),
              trace |-> s.trace]
        ELSE [res |-> g.res, trace |-> s.trace \o g.trace]

(***************************************************************************)
(* StateManager (state_manager.py).  The state is the dict of state.json   *)
(* without its timestamp.                                                  *)
(***************************************************************************)
PrdNames == {"a.json", "b.json", "c.json"}

\* the queues of at most two PRD files
ShortQueue == {"a.json", "b.json"}

\* sorted(prds_dir.glob("*.json")): the order of the file names
PrdRank(p) == CASE p = "a.json" -> 1 [] p = "b.json" -> 2 [] p = "c.json" -> 3

\* Mutant: the last file of the queue is taken.
FirstPrd_takes_last(files) == CHOOSE p \in files : \A q \in files : PrdRank(p) >= PrdRank(q)

FirstPrd(files) == CHOOSE p \in files : \A q \in files : PrdRank(p) <= PrdRank(q)

InSeq(x, q) == \E i \in 1..Len(q) : q[i] = x

\* list.remove(x): the first occurrence goes
RemoveFirst(q, x) ==
    LET k == CHOOSE i \in 1..Len(q) : q[i] = x /\ \A j \in 1..(i - 1) : q[j] # x
    IN  SubSeq(q, 1, k - 1) \o SubSeq(q, k + 1, Len(q))

\* what a file holds when it does not hold a whole state record
NoFile == [file |-> "absent"]
EmptyFile == [file |-> "empty"]
PartialFile == [file |-> "partial"]

\* no _save_state is under way, no temp file lies next to state.json
NotSaving == [pc |-> "idle", temp_file |-> NoFile, previous |-> NoFile,
              failed |-> None, stray |-> FALSE]

\* The state is the dict of state.json.  missing: the keys a damaged
\* state.json came without; state.get(key, default) reads the default, which
\* is what the record then holds under that key.
default_state ==
    [current_prd |-> None, current_story |-> None,
     completed_stories |-> << >>, remaining_stories |-> << >>,
     session_count |-> 0, missing |-> {}]

increment_session_count(st) == [st EXCEPT !.session_count = @ + 1]

\* Mutant: current_story is left as it was.
mark_story_complete_keeps_current(st, story_id) ==
    LET remaining == IF InSeq(story_id, st.remaining_stories)
                     THEN RemoveFirst(st.remaining_stories, story_id)
                     ELSE st.remaining_stories
        completed == IF InSeq(story_id, st.completed_stories)
                     THEN st.completed_stories
                     ELSE Append(st.completed_stories, story_id)
    IN  [st EXCEPT !.remaining_stories = remaining,
                   !.completed_stories = completed]

mark_story_complete(st, story_id) ==
    LET remaining == IF InSeq(story_id, st.remaining_stories)
                     THEN RemoveFirst(st.remaining_stories, story_id)
                     ELSE st.remaining_stories
        completed == IF InSeq(story_id, st.completed_stories)
                     THEN st.completed_stories
                     ELSE Append(st.completed_stories, story_id)
    IN  [st EXCEPT !.remaining_stories = remaining,
                   !.completed_stories = completed,
                   !.current_story = IF remaining # << >> THEN Head(remaining)
                                                           ELSE None,
                   !.missing = @ \ {"remaining_stories", "completed_stories",
                                    "current_story"}]

\* _verify_state_integrity: the three keys are there (their values are lists
\* in every state of the model)
verify_state_integrity(st) ==
    st.missing \cap {"current_prd", "remaining_stories", "completed_stories"} = {}

\* _verify_completion: nothing remains, the PRD file is there, and every
\* story it lists is in completed_stories
verify_completion(st, prd, files, stories_of) ==
    /\ st.remaining_stories = << >>
    /\ prd \in files
    /\ \A i \in 1..Len(stories_of[prd]) :
          InSeq(stories_of[prd][i], st.completed_stories)

(***************************************************************************)
(* _archive_prd_atomic.  fault: the step that fails, "none" if none does.  *)
(* A failed copy2 may leave a partial file behind, and nothing removes it;  *)
(* after a size mismatch or a failed delete of the source the rollback     *)
(* removes the archive copy.                                               *)
(***************************************************************************)
ArchiveFaults ==
    {"none", "not_writable", "copy", "copy_partial", "size_mismatch", "unlink"}

\* Mutant: the archive copy is made and the source is left in prds/.
archive_prd_atomic_keeps_source(prd, files, arch, fault) ==
    [ok |-> prd \in files, prds |-> files, archive |-> IF prd \in files THEN [arch EXCEPT ![prd] = "complete"] ELSE arch]

archive_prd_atomic(prd, files, arch, fault) ==
    IF prd \notin files THEN [ok |-> FALSE, prds |-> files, archive |-> arch]
    ELSE CASE fault = "none" ->
                [ok |-> TRUE, prds |-> files \ {prd},
                 archive |-> [arch EXCEPT ![prd] = "complete"]]
           [] fault = "copy_partial" ->
                [ok |-> FALSE, prds |-> files,
                 archive |-> [arch EXCEPT ![prd] = "partial"]]
           [] fault \in {"size_mismatch", "unlink"} ->
                [ok |-> FALSE, prds |-> files,
                 archive |-> [arch EXCEPT ![prd] = None]]
           [] OTHER -> [ok |-> FALSE, prds |-> files, archive |-> arch]

\* what stands for the stories of a PRD file that json.load rejects
NotJson == <<"not json">>

\* Mutant: the structure of the state is not looked at before archiving.
load_next_prd_skips_integrity(st, files, arch, stories_of, fault) ==
    LET a == IF st.current_prd # None
                /\ verify_completion(st, st.current_prd, files, stories_of)
             THEN archive_prd_atomic(st.current_prd, files, arch, fault)
             ELSE [ok |-> FALSE, prds |-> files, archive |-> arch]
        next_prd == FirstPrd(a.prds)
        ids == stories_of[next_prd]
    IN  IF a.prds = {}
        THEN [ret |-> FALSE, prds |-> a.prds, archive |-> a.archive,
              state |-> [st EXCEPT !.current_prd = None, !.current_story = None,
                                   !.remaining_stories = << >>,
                                   !.missing = @ \ {"current_prd", "current_story",
                                                    "remaining_stories"}]]
        ELSE IF ids = NotJson
        THEN [ret |-> FALSE, prds |-> a.prds, archive |-> a.archive, state |-> st]
        ELSE [ret |-> TRUE, prds |-> a.prds, archive |-> a.archive,
              state |-> [st EXCEPT !.current_prd = next_prd,
                                   !.current_story = IF ids # << >> THEN Head(ids)
                                                                    ELSE None,
                                   !.remaining_stories = ids,
                                   !.completed_stories = << >>,
                                   !.missing = @ \ {"current_prd", "current_story",
                                                    "remaining_stories",
                                                    "completed_stories"}]]

(***************************************************************************)
(* load_next_prd: archive the current PRD when it is complete, then load   *)
(* the first PRD file left in prds/.  The state it returns is saved; when  *)
(* the file is not JSON (376-384) the state is left as it was.             *)
(***************************************************************************)
load_next_prd(st, files, arch, stories_of, fault) ==
    LET a == IF st.current_prd # None
                /\ verify_state_integrity(st)
                /\ verify_completion(st, st.current_prd, files, stories_of)
             THEN archive_prd_atomic(st.current_prd, files, arch, fault)
             ELSE [ok |-> FALSE, prds |-> files, archive |-> arch]
        next_prd == FirstPrd(a.prds)
        ids == stories_of[next_prd]
    IN  IF a.prds = {}
        THEN [ret |-> FALSE, prds |-> a.prds, archive |-> a.archive,
              state |-> [st EXCEPT !.current_prd = None, !.current_story = None,
                                   !.remaining_stories = << >>,
                                   !.missing = @ \ {"current_prd", "current_story",
                                                    "remaining_stories"}]]
        ELSE IF ids = NotJson
        THEN [ret |-> FALSE, prds |-> a.prds, archive |-> a.archive, state |-> st]
        ELSE [ret |-> TRUE, prds |-> a.prds, archive |-> a.archive,
              state |-> [st EXCEPT !.current_prd = next_prd,
                                   !.current_story = IF ids # << >> THEN Head(ids)
                                                                    ELSE None,
                                   !.remaining_stories = ids,
                                   !.completed_stories = << >>,
                                   !.missing = @ \ {"current_prd", "current_story",
                                                    "remaining_stories",
                                                    "completed_stories"}]]

(***************************************************************************)
(* move_test_to_regression (loop.py 445-541), for a story id without path  *)
(* characters.  fault: the step that fails, "none" if none does; a         *)
(* regression path that is a file makes mkdir fail.  A missing tests/      *)
(* directory is a missing test file.                                       *)
(***************************************************************************)
MoveFaults ==
    {"none", "mkdir", "not_a_directory", "copy", "copy_partial", "unlink"}

\* what a failed copy2 can leave at the destination
PartialTest == "partial"

\* Mutant: the copy is made and the source is left where it was.
move_test_to_regression_keeps_source(story_id, tst, reg, fault) ==
    IF tst[story_id] = None THEN [ret |-> FALSE, tests |-> tst, regression |-> reg]
    ELSE IF fault \in {"mkdir", "not_a_directory"} /\ ~reg.dir
    THEN [ret |-> FALSE, tests |-> tst, regression |-> reg]
    ELSE IF fault \in {"copy", "copy_partial"}
    THEN [ret |-> FALSE, tests |-> tst, regression |-> [reg EXCEPT !.dir = TRUE]]
    ELSE [ret |-> fault = "none", tests |-> tst,
          regression |-> [dir |-> TRUE,
                          files |-> [reg.files EXCEPT ![story_id] = tst[story_id]]]]

\* Mutant: the source is removed first, the copy made afterwards.
move_test_to_regression_unlinks_first(story_id, tst, reg, fault) ==
    IF tst[story_id] = None THEN [ret |-> FALSE, tests |-> tst, regression |-> reg]
    ELSE IF fault \in {"mkdir", "not_a_directory", "copy", "copy_partial"}
    THEN [ret |-> FALSE, tests |-> [tst EXCEPT ![story_id] = None], regression |-> reg]
    ELSE [ret |-> fault = "none", tests |-> [tst EXCEPT ![story_id] = None],
          regression |-> [dir |-> TRUE,
                          files |-> [reg.files EXCEPT ![story_id] = tst[story_id]]]]

\* Mutant: with no source file, the destination is cleared.
move_test_to_regression_clears_stale(story_id, tst, reg, fault) ==
    IF tst[story_id] = None
    THEN [ret |-> FALSE, tests |-> tst,
          regression |-> [reg EXCEPT !.files[story_id] = None]]
    ELSE IF fault \in {"mkdir", "not_a_directory"} /\ ~reg.dir
    THEN [ret |-> FALSE, tests |-> tst, regression |-> reg]
    ELSE IF fault \in {"copy", "copy_partial"}
    THEN [ret |-> FALSE, tests |-> tst, regression |-> [reg EXCEPT !.dir = TRUE]]
    ELSE [ret |-> fault = "none",
          tests |-> IF fault = "none" THEN [tst EXCEPT ![story_id] = None] ELSE tst,
          regression |-> [dir |-> TRUE,
                          files |-> [reg.files EXCEPT ![story_id] = tst[story_id]]]]

\* Mutant: a failure is reported as success.
move_test_to_regression_reports_success(story_id, tst, reg, fault) ==
    IF tst[story_id] = None THEN [ret |-> TRUE, tests |-> tst, regression |-> reg]
    ELSE IF fault \in {"mkdir", "not_a_directory"} /\ ~reg.dir
    THEN [ret |-> TRUE, tests |-> tst, regression |-> reg]
    ELSE IF fault \in {"copy", "copy_partial"}
    THEN [ret |-> TRUE, tests |-> tst, regression |-> [reg EXCEPT !.dir = TRUE]]
    ELSE [ret |-> TRUE,
          tests |-> IF fault = "none" THEN [tst EXCEPT ![story_id] = None] ELSE tst,
          regression |-> [dir |-> TRUE,
                          files |-> [reg.files EXCEPT ![story_id] = tst[story_id]]]]

move_test_to_regression(story_id, tst, reg, fault) ==
    IF tst[story_id] = None THEN [ret |-> FALSE, tests |-> tst, regression |-> reg]
    ELSE IF fault \in {"mkdir", "not_a_directory"} /\ ~reg.dir
    THEN [ret |-> FALSE, tests |-> tst, regression |-> reg]
    ELSE IF fault = "copy"
    THEN [ret |-> FALSE, tests |-> tst, regression |-> [reg EXCEPT !.dir = TRUE]]
    ELSE IF fault = "copy_partial"
    THEN [ret |-> FALSE, tests |-> tst,
          regression |-> [dir |-> TRUE,
                          files |-> [reg.files EXCEPT ![story_id] = PartialTest]]]
    ELSE LET copied == [dir |-> TRUE,
                        files |-> [reg.files EXCEPT ![story_id] = tst[story_id]]]
         IN  IF fault = "unlink"
             THEN [ret |-> FALSE, tests |-> tst, regression |-> copied]
             ELSE [ret |-> TRUE, tests |-> [tst EXCEPT ![story_id] = None],
                   regression |-> copied]

\* _archive_test_files (loop.py 567-608): the tests of the PRD's stories that
\* are still in tests/ go to tests/archive/, which nothing reads
archive_test_files(prd, files, stories_of, tst) ==
    IF prd \notin files THEN tst
    ELSE [s \in Stories |-> IF InSeq(s, stories_of[prd]) THEN None ELSE tst[s]]

(***************************************************************************)
(* HistoryLogger: one entry per log_* call, appended to history.md.        *)
(***************************************************************************)
HistoryEntry(kind, story_id, prd, session, detail) ==
    [kind |-> kind, story |-> story_id, prd |-> prd, session |-> session,
     detail |-> detail]

log_block(h, story_id, prd, reason, session) ==
    Append(h, HistoryEntry("BLOCKED", story_id, prd, session, reason))
log_test_generation(h, story_id, prd, session) ==
    Append(h, HistoryEntry("Tests Generated", story_id, prd, session, << >>))
log_completion(h, story_id, prd, commit_hash, session) ==
    Append(h, HistoryEntry("Complete", story_id, prd, session, <<commit_hash>>))

(***************************************************************************)
(* The state machine: a caller makes one call at a time.                   *)
(***************************************************************************)
\* the call and what it found on disk: the story's test file, tests/regression
Called(fn, story_id, phase, exists, dir_exists) ==
    [fn |-> fn, story_id |-> story_id, phase |-> phase,
     exists |-> exists, dir_exists |-> dir_exists]
Idle == Called("idle", None, None, FALSE, FALSE)
NoResult == [kind |-> "none"]

NoLocals == [current_prd |-> None, current_story |-> None, session_num |-> 0]
NoTests == [s \in Stories |-> None]

\* main() is not running
MainOff ==
    /\ pc = "off"
    /\ exit_code = None
    /\ state = default_state
    /\ state_file = NoFile
    /\ saving = NotSaving
    /\ prd_stories = [p \in PrdNames |-> << >>]
    /\ prds = {}
    /\ archive = [p \in PrdNames |-> None]
    /\ tests = NoTests
    /\ regression = [dir |-> FALSE, files |-> NoTests]
    /\ history = << >>
    /\ commits = << >>
    /\ locals = NoLocals
    /\ finished = {}

Init ==
    /\ phase_storage = [s \in Stories |-> None]
    /\ call = Idle
    /\ result = NoResult
    /\ trace = << >>
    /\ MainOff

\* the verification run fails, so the capture run and the fix attempt happen
StoryFixPath(phase, exists, rc1) ==
    phase = "implement" /\ exists /\ rc1 # ExitOk

CallExecuteStoryLoop ==
    /\ call = Idle
    /\ \E s \in Stories, p \in PhaseArgs, exists \in BOOLEAN, rc1 \in ExitCodes :
         \E out \in (IF StoryFixPath(p, exists, rc1) THEN TestOutputs ELSE {NoOut}),
            rc2 \in (IF StoryFixPath(p, exists, rc1) THEN ExitCodes ELSE {ExitOk}) :
            LET r == execute_story_loop(phase_storage, s, p, exists, rc1, out, rc2)
            IN  /\ phase_storage' = r.storage
                /\ result' = r.res
                /\ trace' = r.trace
                /\ call' = Called("execute_story_loop", s, p, exists, FALSE)
                /\ UNCHANGED mainVars

\* the regression run fails, so the capture run and the regression fix happen
RegressionFixPath(exists, rc, dir_exists, reg1) ==
    /\ exists /\ rc = ExitOk /\ dir_exists
    /\ reg1 \in {"rc1", "rc2"}

CallExecuteStoryWithRegression ==
    /\ call = Idle
    /\ \E s \in Stories, exists \in BOOLEAN, rc \in ExitCodes,
          dir_exists \in BOOLEAN, reg1 \in RegOutcomes :
         \E out \in (IF RegressionFixPath(exists, rc, dir_exists, reg1)
                     THEN TestOutputs ELSE {NoOut}),
            reg2 \in (IF RegressionFixPath(exists, rc, dir_exists, reg1)
                      THEN RegOutcomes ELSE {"rc0"}) :
            LET r == execute_story_with_regression(s, exists, rc, dir_exists,
                                                   reg1, out, reg2)
            IN  /\ result' = r.res
                /\ trace' = r.trace
                /\ call' = Called("execute_story_with_regression", s, None,
                                   exists, dir_exists)
                /\ UNCHANGED <<phase_storage, mainVars>>

CallRunRegressionTests ==
    /\ call = Idle
    /\ \E s \in Stories, dir_exists \in BOOLEAN, o \in RegOutcomes :
         LET r == run_regression_tests(s, dir_exists, o)
         IN  /\ result' = r.res
             /\ trace' = r.trace
             /\ call' = Called("run_regression_tests", s, None, FALSE,
                                dir_exists) @@ [outcome |-> o]
             /\ UNCHANGED <<phase_storage, mainVars>>

\* the caller has taken the result; the phase map lives on (module global)
TakeResult ==
    /\ call # Idle
    /\ call' = Idle
    /\ result' = NoResult
    /\ trace' = << >>
    /\ UNCHANGED <<phase_storage, mainVars>>

Next ==
    \/ CallExecuteStoryLoop
    \/ CallExecuteStoryWithRegression
    \/ CallRunRegressionTests
    \/ TakeResult

Spec == Init /\ [][Next]_vars

(***************************************************************************)
(* main() (loop.py 611-898), one action per stage of its loop.  A story's  *)
(* test file, once there, stays until main moves it.                       *)
(***************************************************************************)
StoryLists == {q \in UNION {[1..n -> Stories] : n \in 0..MaxStories} :
                  \A i, j \in 1..Len(q) : q[i] = q[j] => i = j}

InitMain ==
    /\ phase_storage = [s \in Stories |-> None]
    /\ call = Idle
    /\ result = NoResult
    /\ trace = << >>
    /\ pc = "start"
    /\ exit_code = None
    /\ state = default_state
    /\ state_file = NoFile
    /\ saving = NotSaving
    /\ prds \in SUBSET ShortQueue
    /\ prd_stories \in [PrdNames -> StoryLists]
    /\ \A p \in PrdNames \ prds : prd_stories[p] = << >>
    /\ archive = [p \in PrdNames |-> None]
    /\ tests \in [Stories -> {None, "left over"}]
    /\ regression \in {[dir |-> d, files |-> NoTests] : d \in BOOLEAN}
    /\ history = << >>
    /\ commits = << >>
    /\ locals = NoLocals
    /\ finished = {}

Finish(story_id, how) == finished \cup {<<locals.current_prd, story_id, how>>}

\* 627-649: config.validate(), StateManager(), initialize_state(), first PRD
MainInitialize ==
    /\ pc = "start"
    /\ \E config_ok \in BOOLEAN :
         LET st0 == IF state_file = NoFile THEN default_state ELSE state_file
             r   == load_next_prd(st0, prds, archive, prd_stories, "none")
         IN  IF ~config_ok
             THEN /\ pc' = "exit"
                  /\ exit_code' = 1
                  /\ UNCHANGED <<state, state_file, prds, archive>>
             ELSE IF st0.current_prd # None
             THEN /\ pc' = "loop"
                  /\ state' = st0
                  /\ UNCHANGED <<exit_code, state_file, prds, archive>>
             ELSE /\ state' = r.state
                  /\ state_file' = r.state
                  /\ prds' = r.prds
                  /\ archive' = r.archive
                  /\ pc' = IF r.ret THEN "loop" ELSE "exit"
                  /\ exit_code' = IF r.ret THEN exit_code ELSE 0
    /\ UNCHANGED <<phase_storage, trace, libVars, prd_stories, saving, tests, regression,
                   history, commits, locals, finished>>

\* 652-689: the top of the loop, up to track_phase(current_story, 'test')
MainLoopTop ==
    /\ pc = "loop"
    /\ IF state.current_prd = None
       THEN /\ pc' = "exit"
            /\ exit_code' = 0
            /\ UNCHANGED <<phase_storage, trace, state, state_file, prds, archive,
                           tests, locals>>
       ELSE IF state.current_story = None
       THEN \E fault \in ArchiveFaults :
              LET r == load_next_prd(state, prds, archive, prd_stories, fault)
              IN  /\ tests' = archive_test_files(state.current_prd, prds,
                                                 prd_stories, tests)
                  /\ state' = r.state
                  /\ state_file' = r.state
                  /\ prds' = r.prds
                  /\ archive' = r.archive
                  /\ pc' = IF r.ret THEN "loop" ELSE "exit"
                  /\ exit_code' = IF r.ret THEN exit_code ELSE 0
                  /\ trace' = << >>
                  /\ UNCHANGED <<phase_storage, locals>>
       ELSE /\ state.session_count < MaxSessions
            /\ LET st == increment_session_count(state)
                   t  == track_phase(phase_storage, state.current_story, "test")
               IN  /\ state' = st
                   /\ state_file' = st
                   /\ locals' = [current_prd |-> state.current_prd,
                                 current_story |-> state.current_story,
                                 session_num |-> st.session_count]
                   /\ phase_storage' = t.storage
                   /\ trace' = t.trace
                   /\ pc' = "testgen"
            /\ UNCHANGED <<exit_code, prds, archive, tests>>
    /\ UNCHANGED <<libVars, prd_stories, saving, regression, history, commits, finished>>

\* 691-746: test generation if the story has no test file, the initial run
\* of its tests (whose result decides nothing), track_phase(.., 'implement')
MainTestGeneration ==
    /\ pc = "testgen"
    /\ LET s   == locals.current_story
           gen == Ev("execute_test_generation", s, locals.current_prd, NoOut)
           chk == Ev("pytest_story", s, "initial", NoOut)
           t   == track_phase(phase_storage, s, "implement")
       IN  \E created \in BOOLEAN :
             IF tests[s] = None /\ ~created
             THEN /\ trace' = <<gen>>
                  /\ history' = log_block(history, s, locals.current_prd,
                                          <<"Test file not created">>,
                                          locals.session_num)
                  /\ finished' = Finish(s, "BLOCKED")
                  /\ pc' = "exit"
                  /\ exit_code' = 1
                  /\ UNCHANGED <<phase_storage, tests>>
             ELSE /\ created = (tests[s] = None)
                  /\ tests' = IF created THEN [tests EXCEPT ![s] = locals.current_prd]
                                         ELSE tests
                  /\ history' = IF created
                                THEN log_test_generation(history, s, locals.current_prd,
                                                         locals.session_num)
                                ELSE history
                  /\ trace' = (IF created THEN <<gen>> ELSE << >>) \o <<chk>> \o t.trace
                  /\ phase_storage' = t.storage
                  /\ pc' = "implement"
                  /\ UNCHANGED <<exit_code, finished>>
    /\ UNCHANGED <<libVars, state, state_file, prd_stories, saving, prds, archive,
                   regression, commits, locals>>

\* 747-786: implementation, verification, and the one fix if it fails
MainImplementation ==
    /\ pc = "implement"
    /\ LET s    == locals.current_story
           impl == Ev("execute_implementation", s, locals.current_prd, NoOut)
       IN  \E rc1 \in ExitCodes :
             IF rc1 = ExitOk
             THEN /\ trace' = <<impl, Ev("pytest_story", s, "pass", NoOut)>>
                  /\ finished' = Finish(s, "DONE")
                  /\ pc' = "regression"
                  /\ UNCHANGED <<phase_storage, history, exit_code>>
             ELSE \E rc2 \in ExitCodes :
                    LET t == track_phase(phase_storage, s, "fix")
                        f == attempt_fix_with_context(s, NoOut, "test_failure",
                                                      tests[s] # None, rc2)
                    IN  /\ phase_storage' = t.storage
                        /\ trace' = <<impl, Ev("pytest_story", s, "fail", NoOut)>>
                                    \o t.trace \o f.trace
                        /\ IF f.res.val
                           THEN /\ finished' = Finish(s, "DONE")
                                /\ pc' = "regression"
                                /\ UNCHANGED <<history, exit_code>>
                           ELSE /\ finished' = Finish(s, "BLOCKED")
                                /\ history' = log_block(history, s, locals.current_prd,
                                       <<"Tests failing after implementation and fix attempt">>,
                                       locals.session_num)
                                /\ pc' = "exit"
                                /\ exit_code' = 1
    /\ UNCHANGED <<libVars, state, state_file, prd_stories, saving, prds, archive, tests,
                   regression, commits, locals>>

\* an exception nothing catches ends the process with status 1
Uncaught(res) ==
    /\ result' = res
    /\ pc' = "exit"
    /\ exit_code' = 1

\* main reads the captured text only through the extraction of the failing
\* test's name: one text for each thing the extraction can come to
ExtractionResults == {extract_failing_test(o, 1) : o \in TestOutputs}
CapturedOutputs ==
    {CHOOSE o \in TestOutputs : extract_failing_test(o, 1) = r : r \in ExtractionResults}

\* main's trace names the calls, not the text they pass on
WithoutOutput(tr) == [i \in DOMAIN tr |-> [tr[i] EXCEPT !.out = NoOut]]

\* 788-833: the regression suite, and the one regression fix if it fails
MainRegression ==
    /\ pc = "regression"
    /\ LET s == locals.current_story
       IN  \E reg1 \in RegOutcomes :
             LET r == run_regression_tests(s, regression.dir, reg1)
             IN  IF r.res.kind = "raise"
                 THEN /\ Uncaught(r.res)
                      /\ trace' = r.trace
                      /\ UNCHANGED history
                 ELSE IF r.res.val
                 THEN /\ pc' = "commit"
                      /\ trace' = r.trace
                      /\ UNCHANGED <<result, exit_code, history>>
                 ELSE \E out \in CapturedOutputs, reg2 \in RegOutcomes :
                        LET f  == attempt_regression_fix(s, out, "regression_failure",
                                                         regression.dir, reg2)
                            n  == extract_failing_test(out, 1)
                            tr == r.trace
                                  \o <<Ev("pytest_regression", s, "capture", out)>>
                                  \o f.trace
                        IN  /\ trace' = WithoutOutput(tr)
                            /\ IF f.res.kind = "raise"
                               THEN Uncaught(f.res) /\ UNCHANGED history
                               ELSE IF f.res.val
                               THEN /\ pc' = "commit"
                                    /\ UNCHANGED <<result, exit_code, history>>
                               ELSE IF n.kind = "raise"
                               THEN Uncaught(n) /\ UNCHANGED history
                               ELSE /\ history' = log_block(history, s, locals.current_prd,
                                           <<"Regression tests failing:">>
                                           \o get_regression_failure_context(s, n.val),
                                           locals.session_num)
                                    /\ pc' = "exit"
                                    /\ exit_code' = 1
                                    /\ UNCHANGED result
    /\ UNCHANGED <<phase_storage, call, state, state_file, prd_stories, saving, prds, archive,
                   tests, regression, commits, locals, finished>>

\* 845-864: git add (check=True), git commit (its result is not looked at)
MainCommit ==
    /\ pc = "commit"
    /\ LET s == locals.current_story
       IN  \E add_ok, commit_ok \in BOOLEAN :
             IF ~add_ok
             THEN /\ ~commit_ok
                  /\ Uncaught(Raise("CalledProcessError", <<"git add .">>))
                  /\ trace' = <<Ev("git", s, "add failed", NoOut)>>
                  /\ UNCHANGED commits
             ELSE /\ pc' = "move"
                  /\ commits' = IF commit_ok THEN Append(commits, s) ELSE commits
                  /\ trace' = <<Ev("git", s, "add", NoOut),
                                Ev("git", s, IF commit_ok THEN "commit"
                                                          ELSE "commit failed", NoOut)>>
                  /\ UNCHANGED <<result, exit_code>>
    /\ UNCHANGED <<phase_storage, call, state, state_file, prd_stories, saving, prds, archive,
                   tests, regression, history, locals, finished>>

\* 866-872: the story's test goes to tests/regression; a failure only warns
MainMoveTests ==
    /\ pc = "move"
    /\ \E fault \in MoveFaults :
         LET r == move_test_to_regression(locals.current_story, tests, regression, fault)
         IN  /\ tests' = r.tests
             /\ regression' = r.regression
    /\ pc' = "complete"
    /\ trace' = << >>
    /\ UNCHANGED <<phase_storage, libVars, exit_code, state, state_file, prd_stories, saving,
                   prds, archive, history, commits, locals, finished>>

\* 874-881: state.mark_story_complete(current_story)
MainMarkComplete ==
    /\ pc = "complete"
    /\ state' = mark_story_complete(state, locals.current_story)
    /\ state_file' = state'
    /\ pc' = "log"
    /\ trace' = << >>
    /\ UNCHANGED <<phase_storage, libVars, exit_code, prd_stories, saving, prds, archive,
                   tests, regression, history, commits, locals, finished>>

\* git rev-parse --short HEAD: the last commit, "" in a repository without one
HeadCommit == IF commits = << >> THEN "" ELSE commits[Len(commits)]

\* 883-898: history.log_completion, then back to the top of the loop
MainLogCompletion ==
    /\ pc = "log"
    /\ history' = log_completion(history, locals.current_story, locals.current_prd,
                                 HeadCommit, locals.session_num)
    /\ locals' = NoLocals
    /\ pc' = "loop"
    /\ trace' = << >>
    /\ UNCHANGED <<phase_storage, libVars, exit_code, state, state_file, prd_stories, saving,
                   prds, archive, tests, regression, commits, finished>>

NextMain ==
    \/ MainInitialize
    \/ MainLoopTop
    \/ MainTestGeneration
    \/ MainImplementation
    \/ MainRegression
    \/ MainCommit
    \/ MainMoveTests
    \/ MainMarkComplete
    \/ MainLogCompletion

SpecMain == InitMain /\ [][NextMain]_vars

(***************************************************************************)
(* SpecState: a caller of the StateManager alone.  load_next_prd,          *)
(* mark_story_complete and increment_session_count are called in any       *)
(* order, with any story id, from the default state; each saves before it  *)
(* returns.  A PRD file may list a story id more than once: nothing in     *)
(* load_next_prd rejects that.                                             *)
(***************************************************************************)
PrdStoryLists == UNION {[1..n -> Stories] : n \in 0..MaxPrdStories}

InitState ==
    /\ phase_storage = [s \in Stories |-> None]
    /\ call = Idle
    /\ result = NoResult
    /\ trace = << >>
    /\ pc = "api"
    /\ exit_code = None
    /\ state = default_state
    /\ state_file = NoFile
    /\ saving = NotSaving
    /\ prds \in SUBSET ShortQueue
    /\ prd_stories \in [PrdNames -> PrdStoryLists]
    /\ \A p \in PrdNames \ prds : prd_stories[p] = << >>
    /\ archive = [p \in PrdNames |-> None]
    /\ tests = NoTests
    /\ regression = [dir |-> FALSE, files |-> NoTests]
    /\ history = << >>
    /\ commits = << >>
    /\ locals = NoLocals
    /\ finished = {}

ApiFrame ==
    UNCHANGED <<phase_storage, libVars, pc, exit_code, prd_stories, saving, tests,
                regression, history, commits, locals, finished>>

\* the call of _archive_prd_atomic inside load_next_prd, if it makes one: the
\* event names the PRD file and says whether the archiving succeeded
ArchiveAttempt(st, files, arch, stories_of, fault) ==
    IF /\ st.current_prd # None
       /\ verify_state_integrity(st)
       /\ verify_completion(st, st.current_prd, files, stories_of)
    THEN <<Ev("_archive_prd_atomic", st.current_prd,
              archive_prd_atomic(st.current_prd, files, arch, fault).ok, NoOut)>>
    ELSE << >>

ApiLoadNextPrd ==
    /\ pc = "api"
    /\ \E fault \in ArchiveFaults :
         LET r == load_next_prd(state, prds, archive, prd_stories, fault)
         IN  /\ state' = r.state
             /\ state_file' = r.state
             /\ prds' = r.prds
             /\ archive' = r.archive
             /\ trace' = <<Ev("load_next_prd", None, r.ret, NoOut)>>
                         \o ArchiveAttempt(state, prds, archive, prd_stories, fault)
    /\ ApiFrame

ApiMarkStoryComplete ==
    /\ pc = "api"
    /\ \E story_id \in Stories :
         /\ state' = mark_story_complete(state, story_id)
         /\ state_file' = state'
         /\ trace' = <<Ev("mark_story_complete", story_id, None, NoOut)>>
    /\ UNCHANGED <<prds, archive>>
    /\ ApiFrame

ApiIncrementSessionCount ==
    /\ pc = "api"
    /\ state.session_count < MaxSessions
    /\ state' = increment_session_count(state)
    /\ state_file' = state'
    /\ trace' = <<Ev("increment_session_count", None, state'.session_count, NoOut)>>
    /\ UNCHANGED <<prds, archive>>
    /\ ApiFrame

NextState ==
    \/ ApiLoadNextPrd
    \/ ApiMarkStoryComplete
    \/ ApiIncrementSessionCount

SpecState == InitState /\ [][NextState]_vars

(***************************************************************************)
(* SpecSave: _save_state (state_manager.py 54-78) step by step.  A caller  *)
(* changes the state in memory and saves; mkstemp, the write and the       *)
(* rename can each fail, and the process can die between any two steps,    *)
(* after which a new StateManager loads what is on disk.  A file's content *)
(* is EmptyFile, PartialFile or the state record it holds in full.         *)
(***************************************************************************)
\* 63-66: tempfile.mkstemp in the directory of state.json, outside the try
save_mkstemp(sv, ok) ==
    IF ok THEN [sv EXCEPT !.pc = "write", !.temp_file = EmptyFile]
          ELSE [sv EXCEPT !.pc = "idle", !.failed = "mkstemp"]

\* Mutant: a write that stops half way is taken for a finished one.
save_write_ignores_failure(sv, st, outcome) ==
    CASE outcome = "more" -> [sv EXCEPT !.temp_file = PartialFile]
      [] outcome = "done" -> [sv EXCEPT !.pc = "replace", !.temp_file = st]
      [] outcome = "fail" -> [sv EXCEPT !.pc = "replace"]

\* 68-70: json.dump into the temp file, piece by piece
save_write(sv, st, outcome) ==
    CASE outcome = "more" -> [sv EXCEPT !.temp_file = PartialFile]
      [] outcome = "done" -> [sv EXCEPT !.pc = "replace", !.temp_file = st]
      [] outcome = "fail" -> [sv EXCEPT !.pc = "cleanup", !.failed = "write"]

\* 73: temp_path.replace(state_file), the rename
save_replace(sv, file, ok) ==
    IF ok THEN [saving |-> [sv EXCEPT !.pc = "idle", !.temp_file = NoFile],
                state_file |-> sv.temp_file]
          ELSE [saving |-> [sv EXCEPT !.pc = "cleanup", !.failed = "replace"],
                state_file |-> file]

\* Mutant: the handler re-raises without removing the temp file.
save_cleanup_keeps_temp(sv) == [sv EXCEPT !.pc = "idle"]

\* 74-78: except Exception: unlink the temp file if it is there, re-raise
save_cleanup(sv) == [sv EXCEPT !.pc = "idle", !.temp_file = NoFile]

InitSave ==
    /\ phase_storage = [s \in Stories |-> None]
    /\ call = Idle
    /\ result = NoResult
    /\ trace = << >>
    /\ pc = "save"
    /\ exit_code = None
    /\ state = default_state
    /\ state_file = NoFile
    /\ saving = NotSaving
    /\ prds \in SUBSET ShortQueue
    /\ prd_stories \in [PrdNames -> StoryLists]
    /\ \A p \in PrdNames \ prds : prd_stories[p] = << >>
    /\ archive = [p \in PrdNames |-> None]
    /\ tests = NoTests
    /\ regression = [dir |-> FALSE, files |-> NoTests]
    /\ history = << >>
    /\ commits = << >>
    /\ locals = NoLocals
    /\ finished = {}

SaveFrame ==
    UNCHANGED <<phase_storage, call, trace, pc, exit_code, prd_stories, tests,
                regression, history, commits, locals, finished>>

\* load_next_prd or mark_story_complete changes the state in memory and
\* calls _save_state; the archive steps of load_next_prd all succeed here
SaveCall ==
    /\ pc = "save"
    /\ saving.pc = "idle"
    /\ \/ LET r == load_next_prd(state, prds, archive, prd_stories, "none")
          IN  state' = r.state /\ prds' = r.prds /\ archive' = r.archive
       \/ \E story_id \in Stories :
            /\ state' = mark_story_complete(state, story_id)
            /\ UNCHANGED <<prds, archive>>
    /\ saving' = [saving EXCEPT !.pc = "mkstemp", !.previous = state_file,
                                !.failed = None]
    /\ result' = NoResult
    /\ UNCHANGED state_file
    /\ SaveFrame

SaveMkstemp ==
    /\ saving.pc = "mkstemp"
    /\ \E ok \in BOOLEAN :
         /\ saving' = save_mkstemp(saving, ok)
         /\ result' = IF ok THEN result ELSE Raise("OSError", <<"mkstemp">>)
    /\ UNCHANGED <<state, state_file, prds, archive>>
    /\ SaveFrame

SaveWrite ==
    /\ saving.pc = "write"
    /\ \E outcome \in {"more", "done", "fail"} :
         /\ outcome = "more" => saving.temp_file = EmptyFile
         /\ saving' = save_write(saving, state, outcome)
    /\ UNCHANGED <<result, state, state_file, prds, archive>>
    /\ SaveFrame

SaveReplace ==
    /\ saving.pc = "replace"
    /\ \E ok \in BOOLEAN :
         LET r == save_replace(saving, state_file, ok)
         IN  /\ saving' = r.saving
             /\ state_file' = r.state_file
             /\ result' = IF ok THEN Return(None) ELSE result
    /\ UNCHANGED <<state, prds, archive>>
    /\ SaveFrame

SaveCleanup ==
    /\ saving.pc = "cleanup"
    /\ saving' = save_cleanup(saving)
    /\ result' = Raise("OSError", <<saving.failed>>)
    /\ UNCHANGED <<state, state_file, prds, archive>>
    /\ SaveFrame

\* the process dies in the middle of a save; the files stay as they are
SaveCrash ==
    /\ saving.pc \in {"mkstemp", "write", "replace", "cleanup"}
    /\ saving' = [saving EXCEPT !.pc = "crashed"]
    /\ UNCHANGED <<result, state, state_file, prds, archive>>
    /\ SaveFrame

\* 24-52: a new process, StateManager() loads state.json or the default
SaveRestart ==
    /\ saving.pc = "crashed"
    /\ state' = IF state_file = NoFile THEN default_state ELSE state_file
    /\ saving' = [saving EXCEPT !.pc = "idle", !.temp_file = NoFile,
                                !.failed = None,
                                !.stray = saving.stray \/ saving.temp_file # NoFile]
    /\ result' = NoResult
    /\ UNCHANGED <<state_file, prds, archive>>
    /\ SaveFrame

NextSave ==
    \/ SaveCall
    \/ SaveMkstemp
    \/ SaveWrite
    \/ SaveReplace
    \/ SaveCleanup
    \/ SaveCrash
    \/ SaveRestart

SpecSave == InitSave /\ [][NextSave]_vars

(***************************************************************************)
(* SpecArchive: the StateManager of a resumed run.  StateManager() loads   *)
(* the state.json it finds: none, or one a previous run left for a PRD of  *)
(* the queue with none or all of its stories remaining, none or all of     *)
(* them completed, and possibly damaged (keys gone).                       *)
(***************************************************************************)
ListKeys == {"remaining_stories", "completed_stories"}

ResumedStates(files, stories_of) ==
    {default_state} \cup
    {[default_state EXCEPT !.current_prd = p,
                           !.remaining_stories = r,
                           !.completed_stories = c,
                           !.current_story = IF r = << >> THEN None ELSE Head(r),
                           !.missing = mk] :
        <<p, r, c, mk>> \in
            {t \in files \X PrdStoryLists \X PrdStoryLists \X SUBSET ListKeys :
                /\ t[2] \in {<< >>, stories_of[t[1]]}
                /\ t[3] \in {<< >>, stories_of[t[1]]}
                /\ "remaining_stories" \in t[4] => t[2] = << >>
                /\ "completed_stories" \in t[4] => t[3] = << >>}}

InitArchive ==
    /\ phase_storage = [s \in Stories |-> None]
    /\ call = Idle
    /\ result = NoResult
    /\ trace = << >>
    /\ pc = "api"
    /\ exit_code = None
    /\ prds \in SUBSET ShortQueue
    /\ prd_stories \in [PrdNames -> PrdStoryLists]
    /\ \A p \in PrdNames \ prds : prd_stories[p] = << >>
    /\ state \in ResumedStates(prds, prd_stories)
    /\ state_file = IF state = default_state THEN NoFile ELSE state
    /\ saving = NotSaving
    /\ archive = [p \in PrdNames |-> None]
    /\ tests = NoTests
    /\ regression = [dir |-> FALSE, files |-> NoTests]
    /\ history = << >>
    /\ commits = << >>
    /\ locals = NoLocals
    /\ finished = {}

SpecArchive == InitArchive /\ [][NextState]_vars

(***************************************************************************)
(* SpecQueue: the StateManager alone, as in SpecState, over queues of up   *)
(* to three PRD files that list no story id twice.                         *)
(***************************************************************************)
InitQueue ==
    /\ phase_storage = [s \in Stories |-> None]
    /\ call = Idle
    /\ result = NoResult
    /\ trace = << >>
    /\ pc = "api"
    /\ exit_code = None
    /\ state = default_state
    /\ state_file = NoFile
    /\ saving = NotSaving
    /\ prds \in SUBSET PrdNames
    /\ prd_stories \in [PrdNames -> StoryLists]
    /\ \A p \in PrdNames \ prds : prd_stories[p] = << >>
    /\ archive = [p \in PrdNames |-> None]
    /\ tests = NoTests
    /\ regression = [dir |-> FALSE, files |-> NoTests]
    /\ history = << >>
    /\ commits = << >>
    /\ locals = NoLocals
    /\ finished = {}

SpecQueue == InitQueue /\ [][NextState]_vars

(***************************************************************************)
(* SpecPhase: a caller of track_phase and get_current_phase (loop.py       *)
(* 50-92) with any phase name.  The call keeps the map as it was before.   *)
(***************************************************************************)
PhaseNames == valid_phases \cup {"done", "TEST", ""}

PhaseCalled(fn, story_id, phase) ==
    Called(fn, story_id, phase, phase_storage[story_id] # None, FALSE)
    @@ [before |-> phase_storage]

CallTrackPhase ==
    /\ call = Idle
    /\ \E s \in Stories, phase \in PhaseNames :
         LET t == track_phase(phase_storage, s, phase)
         IN  /\ phase_storage' = t.storage
             /\ result' = t.res
             /\ trace' = t.trace
             /\ call' = PhaseCalled("track_phase", s, phase)
    /\ UNCHANGED mainVars

CallGetCurrentPhase ==
    /\ call = Idle
    /\ \E s \in Stories :
         /\ result' = Return(get_current_phase(phase_storage, s))
         /\ call' = PhaseCalled("get_current_phase", s, None)
    /\ trace' = << >>
    /\ UNCHANGED <<phase_storage, mainVars>>

NextPhase ==
    \/ CallTrackPhase
    \/ CallGetCurrentPhase
    \/ TakeResult

SpecPhase == Init /\ [][NextPhase]_vars

(***************************************************************************)
(* SpecBacklog: main() over a queue in which a PRD file may be one that    *)
(* json.load rejects.                                                      *)
(***************************************************************************)
InitBacklog ==
    /\ phase_storage = [s \in Stories |-> None]
    /\ call = Idle
    /\ result = NoResult
    /\ trace = << >>
    /\ pc = "start"
    /\ exit_code = None
    /\ state = default_state
    /\ state_file = NoFile
    /\ saving = NotSaving
    /\ prds \in SUBSET ShortQueue
    /\ prd_stories \in [PrdNames -> StoryLists \cup {NotJson}]
    /\ \A p \in PrdNames \ prds : prd_stories[p] = << >>
    /\ archive = [p \in PrdNames |-> None]
    /\ tests \in [Stories -> {None, "left over"}]
    /\ regression \in {[dir |-> d, files |-> NoTests] : d \in BOOLEAN}
    /\ history = << >>
    /\ commits = << >>
    /\ locals = NoLocals
    /\ finished = {}

SpecBacklog == InitBacklog /\ [][NextMain]_vars

(***************************************************************************)
(* SpecLive: main() in an environment that does its part.  The             *)
(* configuration is valid, test generation leaves a test file, the story's *)
(* tests pass in the verification run or in the run inside the one fix,    *)
(* the regression stage passes (no suite, a passing run, or a passing run  *)
(* inside the one fix), git add succeeds, and the archive steps succeed.   *)
(* git commit and the move of the test may fail or not.  main() is one     *)
(* sequential process: its next step is always taken.  The backlog is one  *)
(* the run can take within MaxSessions sessions.                           *)
(***************************************************************************)
RECURSIVE TotalStories(_)
TotalStories(files) ==
    IF files = {} THEN 0
    ELSE LET p == CHOOSE q \in files : TRUE
         IN  Len(prd_stories[p]) + TotalStories(files \ {p})

InitLive ==
    /\ InitMain
    /\ TotalStories(prds) <= MaxSessions

EnvironmentDoesItsPart ==
    /\ pc = "start" => pc' = "loop" \/ exit_code' = 0
    /\ pc = "testgen" => tests'[locals.current_story] # None
    /\ pc = "implement"
       => /\ trace' # << >>
          /\ trace'[Len(trace')].op = "pytest_story"
          /\ trace'[Len(trace')].arg = "pass"
    /\ pc = "regression"
       => \/ trace' = << >>
          \/ /\ trace'[Len(trace')].op = "pytest_regression"
             /\ trace'[Len(trace')].arg = "pass"
    /\ pc = "commit" => trace'[1].arg = "add"
    /\ (pc = "loop" /\ state.current_prd # None /\ state.current_story = None)
       => archive'[state.current_prd] = "complete"

LiveInitialize == MainInitialize /\ EnvironmentDoesItsPart
LiveLoopTop == MainLoopTop /\ EnvironmentDoesItsPart
LiveTestGeneration == MainTestGeneration /\ EnvironmentDoesItsPart
LiveImplementation == MainImplementation /\ EnvironmentDoesItsPart
LiveRegression == MainRegression /\ EnvironmentDoesItsPart
LiveCommit == MainCommit /\ EnvironmentDoesItsPart
LiveMoveTests == MainMoveTests /\ EnvironmentDoesItsPart
LiveMarkComplete == MainMarkComplete /\ EnvironmentDoesItsPart
LiveLogCompletion == MainLogCompletion /\ EnvironmentDoesItsPart

NextLive ==
    \/ LiveInitialize
    \/ LiveLoopTop
    \/ LiveTestGeneration
    \/ LiveImplementation
    \/ LiveRegression
    \/ LiveCommit
    \/ LiveMoveTests
    \/ LiveMarkComplete
    \/ LiveLogCompletion

SpecLive == InitLive /\ [][NextLive]_vars /\ WF_vars(NextLive)

(***************************************************************************)
(* SpecArchiveSteps: _archive_prd_atomic (state_manager.py 258-312) one    *)
(* file operation at a time, for the PRD named in locals.current_prd.  The *)
(* process may die between any two operations, and a later process may     *)
(* archive again.  prds/archive/ may hold a partial file left by an        *)
(* earlier failed copy.                                                    *)
(***************************************************************************)
ArchiveStep(next, files, arch, msg) ==
    [next |-> next, prds |-> files, archive |-> arch, msg |-> msg]

\* 259-271: the source is there, prds/archive/ exists and can be written
archive_check(prd, files, arch, writable) ==
    IF prd \notin files THEN ArchiveStep("archive_failed", files, arch, "Source PRD not found")
    ELSE IF ~writable
    THEN ArchiveStep("archive_failed", files, arch, "Archive directory is not writable")
    ELSE ArchiveStep("archive_copy", files, arch, "")

\* Mutant: the copy is a move, the source goes as the copy is made.
archive_copy_moves(prd, files, arch, outcome) ==
    ArchiveStep(IF outcome = "ok" THEN "archive_verify" ELSE "archive_failed", files \ {prd}, [arch EXCEPT ![prd] = IF outcome = "ok" THEN "complete" ELSE "partial"], "")

\* 275-283: shutil.copy2 of the source into prds/archive/
archive_copy(prd, files, arch, outcome) ==
    CASE outcome = "ok" ->
           ArchiveStep("archive_verify", files, [arch EXCEPT ![prd] = "complete"], "")
      [] outcome = "partial" ->
           ArchiveStep("archive_failed", files, [arch EXCEPT ![prd] = "partial"],
                       "Failed to copy to archive")
      [] OTHER -> ArchiveStep("archive_failed", files, arch, "Failed to copy to archive")

\* 285-297: the sizes are compared; on a mismatch the copy is unlinked (an
\* unlink that fails leaves it, the outer except returns False)
archive_verify(prd, files, arch, outcome) ==
    CASE outcome = "same" -> ArchiveStep("archive_unlink", files, arch, "")
      [] outcome = "mismatch" ->
           ArchiveStep("archive_failed", files, [arch EXCEPT ![prd] = None],
                       "Archive copy size mismatch")
      [] OTHER -> ArchiveStep("archive_failed", files, arch,
                              "Atomic archive operation failed")

\* 299-302: the source is unlinked
archive_unlink(prd, files, arch, ok) ==
    IF ok THEN ArchiveStep("archive_done", files \ {prd}, arch, "")
    ELSE ArchiveStep("archive_rollback", files, arch, "")

\* 303-308: the source could not be unlinked, the copy is unlinked
archive_rollback(prd, files, arch, ok) ==
    ArchiveStep("archive_failed", files, IF ok THEN [arch EXCEPT ![prd] = None] ELSE arch, "Failed to delete original after archiving")

InitArchiveSteps ==
    /\ phase_storage = [s \in Stories |-> None]
    /\ call = Idle
    /\ result = NoResult
    /\ trace = << >>
    /\ pc = "off"
    /\ exit_code = None
    /\ state = default_state
    /\ state_file = NoFile
    /\ saving = NotSaving
    /\ prds \in SUBSET PrdNames
    /\ prd_stories = [p \in PrdNames |-> IF p \in prds THEN <<"US-1">> ELSE << >>]
    /\ archive \in [PrdNames -> {None, "partial"}]
    /\ \A p \in PrdNames \ prds : archive[p] = None
    /\ tests = NoTests
    /\ regression = [dir |-> FALSE, files |-> NoTests]
    /\ history = << >>
    /\ commits = << >>
    /\ locals = NoLocals
    /\ finished = {}

ArchiveFrame ==
    UNCHANGED <<phase_storage, call, trace, exit_code, state, state_file, saving,
                prd_stories, tests, regression, history, commits, finished>>

\* the (success, error_message) pair handed back when the function is left
ArchiveReturn(r) ==
    CASE r.next = "archive_done" -> Return(<<TRUE, "">>)
      [] r.next = "archive_failed" -> Return(<<FALSE, r.msg>>)
      [] OTHER -> NoResult

ArchiveTake(r) ==
    /\ pc' = r.next
    /\ prds' = r.prds
    /\ archive' = r.archive
    /\ result' = ArchiveReturn(r)
    /\ UNCHANGED locals
    /\ ArchiveFrame

ArchiveCall ==
    /\ pc \in {"off", "archive_done", "archive_failed", "crashed"}
    /\ \E p \in PrdNames, writable \in BOOLEAN :
         LET r == archive_check(p, prds, archive, writable)
         IN  /\ prd_stories[p] # << >>
             /\ pc' = r.next
             /\ result' = ArchiveReturn(r)
             /\ locals' = [NoLocals EXCEPT !.current_prd = p]
    /\ UNCHANGED <<prds, archive>>
    /\ ArchiveFrame

ArchiveCopy ==
    /\ pc = "archive_copy"
    /\ \E outcome \in {"ok", "partial", "fail"} :
         ArchiveTake(archive_copy(locals.current_prd, prds, archive, outcome))

ArchiveVerify ==
    /\ pc = "archive_verify"
    /\ \E outcome \in {"same", "mismatch", "mismatch, unlink fails"} :
         ArchiveTake(archive_verify(locals.current_prd, prds, archive, outcome))

ArchiveUnlink ==
    /\ pc = "archive_unlink"
    /\ \E ok \in BOOLEAN :
         ArchiveTake(archive_unlink(locals.current_prd, prds, archive, ok))

ArchiveRollback ==
    /\ pc = "archive_rollback"
    /\ \E ok \in BOOLEAN :
         ArchiveTake(archive_rollback(locals.current_prd, prds, archive, ok))

ArchiveCrash ==
    /\ pc \in {"archive_copy", "archive_verify", "archive_unlink", "archive_rollback"}
    /\ pc' = "crashed"
    /\ UNCHANGED <<prds, archive, locals, result>>
    /\ ArchiveFrame

NextArchiveSteps ==
    \/ ArchiveCall
    \/ ArchiveCopy
    \/ ArchiveVerify
    \/ ArchiveUnlink
    \/ ArchiveRollback
    \/ ArchiveCrash

SpecArchiveSteps == InitArchiveSteps /\ [][NextArchiveSteps]_vars

(***************************************************************************)
(* SpecMove: a caller of move_test_to_regression.  Test files appear in    *)
(* tests/ (generated or rewritten), and the function is called for any     *)
(* story, with any fault, any number of times.  The call keeps what the    *)
(* two files held before it.                                               *)
(***************************************************************************)
TestContents == {"v1", "v2"}

InitMove ==
    /\ phase_storage = [s \in Stories |-> None]
    /\ call = Idle
    /\ result = NoResult
    /\ trace = << >>
    /\ pc = "off"
    /\ exit_code = None
    /\ state = default_state
    /\ state_file = NoFile
    /\ saving = NotSaving
    /\ prds = {}
    /\ prd_stories = [p \in PrdNames |-> << >>]
    /\ archive = [p \in PrdNames |-> None]
    /\ tests = NoTests
    /\ regression \in {[dir |-> d, files |-> NoTests] : d \in BOOLEAN}
    /\ history = << >>
    /\ commits = << >>
    /\ locals = NoLocals
    /\ finished = {}

MoveFrame ==
    UNCHANGED <<phase_storage, pc, exit_code, state, state_file, saving, prds,
                prd_stories, archive, history, commits, locals, finished>>

\* a test file is written into tests/
WriteTestFile ==
    /\ call = Idle
    /\ \E s \in Stories, content \in TestContents :
         /\ tests[s] # content
         /\ tests' = [tests EXCEPT ![s] = content]
    /\ UNCHANGED <<call, result, trace, regression>>
    /\ MoveFrame

CallMoveTestToRegression ==
    /\ call = Idle
    /\ \E s \in Stories, fault \in MoveFaults :
         LET r == move_test_to_regression(s, tests, regression, fault)
         IN  /\ tests' = r.tests
             /\ regression' = r.regression
             /\ result' = Return(r.ret)
             /\ trace' = << >>
             /\ call' = Called("move_test_to_regression", s, None,
                               tests[s] # None, regression.dir)
                        @@ [fault |-> fault, source |-> tests[s],
                            destination |-> regression.files[s]]
    /\ MoveFrame

NextMove ==
    \/ WriteTestFile
    \/ CallMoveTestToRegression
    \/ TakeResult

SpecMove == InitMove /\ [][NextMove]_vars

(***************************************************************************)
(* The paths move_test_to_regression works on (loop.py 469-541), for any   *)
(* story id.  A string is the sequence of its characters; "test_", "py",   *)
(* "tests" and "regression" stand for runs of letters.  A path is the      *)
(* sequence of its components below the base path, as pathlib parses the   *)
(* joined string: separators split, empty and "." components are dropped.  *)
(* Both '/' and '\' split, as they do on Windows.                          *)
(***************************************************************************)
IdChars == {"a", "/", "\\", "."}

RECURSIVE SeqsUpTo(_, _)
SeqsUpTo(S, n) ==
    IF n = 0 THEN {<< >>}
    ELSE LET shorter == SeqsUpTo(S, n - 1)
         IN  shorter \cup {Append(t, c) : t \in shorter, c \in S}

RawIds == SeqsUpTo(IdChars, MaxIdLen)

\* str.replace(old, new) for a one-character old
replace_char(str, old, new) ==
    [i \in 1..Len(str) |-> IF str[i] = old THEN new ELSE str[i]]

\* str.replace('..', '_'): occurrences are taken left to right, not overlapping
RECURSIVE replace_dotdot(_)
replace_dotdot(str) ==
    IF Len(str) < 2 THEN str
    ELSE IF str[1] = "." /\ str[2] = "."
    THEN <<"_">> \o replace_dotdot(SubSeq(str, 3, Len(str)))
    ELSE <<str[1]>> \o replace_dotdot(Tail(str))

\* Mutant: only the parent-directory sequence is replaced.
sanitize_keeps_separators(story_id) ==
    replace_dotdot(story_id)

sanitize(story_id) ==
    replace_dotdot(replace_char(replace_char(story_id, "/", "_"), "\\", "_"))

IsSeparator(c) == c \in {"/", "\\"}

RECURSIVE SplitPath(_)
SplitPath(str) ==
    IF \A i \in 1..Len(str) : ~IsSeparator(str[i]) THEN <<str>>
    ELSE LET i == CHOOSE n \in 1..Len(str) :
                      /\ IsSeparator(str[n])
                      /\ \A l \in 1..(n - 1) : ~IsSeparator(str[l])
         IN  <<SubSeq(str, 1, i - 1)>> \o SplitPath(SubSeq(str, i + 1, Len(str)))

RECURSIVE DropEmpty(_)
DropEmpty(parts) ==
    IF parts = << >> THEN << >>
    ELSE IF Len(Head(parts)) = 0 \/ Head(parts) = <<".">> THEN DropEmpty(Tail(parts))
    ELSE <<Head(parts)>> \o DropEmpty(Tail(parts))

PathParts(str) == DropEmpty(SplitPath(str))

tests_dir == <<<<"tests">>>>
regression_dir == tests_dir \o <<<<"regression">>>>
TestFileName(story_id) == <<"test_">> \o sanitize(story_id) \o <<".", "py">>
test_file(story_id) == tests_dir \o PathParts(TestFileName(story_id))
destination_file(story_id) == regression_dir \o PathParts(TestFileName(story_id))

PathFaults ==
    {"none", "no_tests_dir", "no_test_file", "mkdir", "not_a_directory", "copy", "unlink"}

FileOp(op, path) == Ev(op, None, path, NoOut)

\* the file-system operations of one call, in order, up to the one that fails
move_file_operations(story_id, fault) ==
    LET ops == << FileOp("exists", tests_dir),
                  FileOp("exists", test_file(story_id)),
                  FileOp("mkdir", regression_dir),
                  FileOp("is_dir", regression_dir),
                  FileOp("copy2 read", test_file(story_id)),
                  FileOp("copy2 write", destination_file(story_id)),
                  FileOp("unlink", test_file(story_id)) >>
        last == CASE fault = "no_tests_dir" -> 1
                  [] fault = "no_test_file" -> 2
                  [] fault = "mkdir" -> 3
                  [] fault = "not_a_directory" -> 4
                  [] fault = "copy" -> 6
                  [] OTHER -> 7
    IN  SubSeq(ops, 1, last)

InitPaths ==
    /\ InitMove
    /\ ~regression.dir

CallMoveWithAnyId ==
    /\ call = Idle
    /\ \E story_id \in RawIds, fault \in PathFaults :
         /\ trace' = move_file_operations(story_id, fault)
         /\ result' = Return(fault = "none")
         /\ call' = Called("move_test_to_regression", story_id, None,
                           fault \notin {"no_tests_dir", "no_test_file"},
                           fault \notin {"no_tests_dir", "no_test_file", "mkdir",
                                         "not_a_directory"})
                    @@ [fault |-> fault]
    /\ UNCHANGED <<tests, regression>>
    /\ MoveFrame

NextPaths ==
    \/ CallMoveWithAnyId
    \/ TakeResult

SpecPaths == InitPaths /\ [][NextPaths]_vars

(***************************************************************************)
(* SpecHistory: a caller of the HistoryLogger alone.  Here history is the  *)
(* whole of history.md, header included, and << >> is the file not being   *)
(* there.  Loggers are constructed at any time (history_logger.py 17-34);  *)
(* the log_* methods need a logger, so the file has been created.          *)
(***************************************************************************)
HistoryHeader == [kind |-> "header"]

\* Mutant: the header is written whether or not the file exists.
ensure_file_exists_rewrites(h) ==
    <<HistoryHeader>>

ensure_file_exists(h) ==
    IF h = << >> THEN <<HistoryHeader>> ELSE h

InitHistory ==
    /\ InitMove
    /\ ~regression.dir

HistoryFrame ==
    UNCHANGED <<phase_storage, pc, exit_code, state, state_file, saving, prds,
                prd_stories, archive, tests, regression, commits, locals, finished>>

LogOp(fn, story_id) == Called(fn, story_id, None, history # << >>, FALSE)

NewHistoryLogger ==
    /\ call = Idle
    /\ history' = ensure_file_exists(history)
    /\ call' = LogOp("HistoryLogger", None)
    /\ result' = Return(None)
    /\ trace' = << >>
    /\ HistoryFrame

CanLog ==
    /\ call = Idle
    /\ history # << >>
    /\ Len(history) <= MaxHistory

LogCompletion ==
    /\ CanLog
    /\ \E s \in Stories, commit_hash \in {"", "US-1"} :
         /\ history' = log_completion(history, s, "a.json", commit_hash, 1)
         /\ call' = LogOp("log_completion", s)
    /\ result' = Return(None)
    /\ trace' = << >>
    /\ HistoryFrame

LogBlock ==
    /\ CanLog
    /\ \E s \in Stories :
         /\ history' = log_block(history, s, "a.json", <<"Test generation failed">>, 1)
         /\ call' = LogOp("log_block", s)
    /\ result' = Return(None)
    /\ trace' = << >>
    /\ HistoryFrame

LogTestGeneration ==
    /\ CanLog
    /\ \E s \in Stories :
         /\ history' = log_test_generation(history, s, "a.json", 1)
         /\ call' = LogOp("log_test_generation", s)
    /\ result' = Return(None)
    /\ trace' = << >>
    /\ HistoryFrame

NextHistory ==
    \/ NewHistoryLogger
    \/ LogCompletion
    \/ LogBlock
    \/ LogTestGeneration
    \/ TakeResult

SpecHistory == InitHistory /\ [][NextHistory]_vars

(***************************************************************************)
(* Reading the trace of the call in hand.                                  *)
(***************************************************************************)
Events(op) == {i \in 1..Len(trace) : trace[i].op = op}

IsStoryRun(e) == e.op = "pytest_story" /\ e.arg \in {"pass", "fail"}
IsRegressionRun(e) == e.op = "pytest_regression" /\ e.arg # "capture"
StoryRuns == SelectSeq(trace, IsStoryRun)
RegressionRuns == SelectSeq(trace, IsRegressionRun)

\* the first run of the story's tests in this call, and how it ended
FirstStoryRun(arg) == Len(StoryRuns) >= 1 /\ StoryRuns[1].arg = arg
FirstRegressionRun(arg) == Len(RegressionRuns) >= 1 /\ RegressionRuns[1].arg = arg

\* the run made inside a fix attempt, and how it ended
FixReran(fix, run, arg) ==
    \E i \in Events(fix) :
        i < Len(trace) /\ trace[i + 1].op = run /\ trace[i + 1].arg = arg

\* event i was handed the output that a capture run before it printed
GotCapturedOutput(i, run) ==
    \E c \in 1..(i - 1) :
        trace[c].op = run /\ trace[c].arg = "capture" /\ trace[c].out = trace[i].out

InStoryLoop(phase) == call.fn = "execute_story_loop" /\ call.phase = phase
InWithRegression == call.fn = "execute_story_with_regression"

(***************************************************************************)
(* C1: IMPLEMENT phase, the story tests fail and the one fix attempt fails *)
(* too: a RuntimeError naming the story and asking for human intervention  *)
(* is raised; the fix was invoked exactly once and nothing but the fix's   *)
(* own test run follows it (no retry, no phase change, no other call).     *)
(***************************************************************************)
C1_FixFailureIsFatal ==
    (/\ InStoryLoop("implement")
     /\ FirstStoryRun("fail")
     /\ FixReran("attempt_fix_with_context", "pytest_story", "fail"))
    => /\ result.kind = "raise"
       /\ result.exc = "RuntimeError"
       /\ Contains(result.msg, <<call.story_id>>)
       /\ Contains(result.msg, <<"Human intervention required">>)
       /\ Cardinality(Events("attempt_fix_with_context")) = 1
       /\ \A i \in Events("attempt_fix_with_context") : Len(trace) = i + 1
       /\ phase_storage[call.story_id] = "fix"

C1_Witness ==
    /\ InStoryLoop("implement")
    /\ FirstStoryRun("fail")
    /\ FixReran("attempt_fix_with_context", "pytest_story", "fail")
    /\ result.kind = "raise"

(***************************************************************************)
(* C2: in execute_story_loop the fix is invoked exactly when the run after *)
(* implementation fails, then exactly once, with the story id, the         *)
(* captured output and error type "test_failure"; when that run passes the *)
(* result has tests_pass = true, blocked = false and no fix is invoked.    *)
(***************************************************************************)
C2_FixIffVerificationFails ==
    call.fn = "execute_story_loop" =>
        LET fixes == Events("attempt_fix_with_context")
        IN  /\ Cardinality(fixes) =
                  IF call.phase = "implement" /\ FirstStoryRun("fail") THEN 1 ELSE 0
            /\ \A i \in fixes :
                  /\ trace[i].story = call.story_id
                  /\ trace[i].arg = "test_failure"
                  /\ GotCapturedOutput(i, "pytest_story")
            /\ (call.phase = "implement" /\ FirstStoryRun("pass"))
                  => /\ result.kind = "return"
                     /\ result.val.tests_pass
                     /\ ~result.val.blocked

C2_Witness ==
    /\ InStoryLoop("implement")
    /\ FirstStoryRun("fail")
    /\ Cardinality(Events("attempt_fix_with_context")) = 1

(***************************************************************************)
(* C3: IMPLEMENT phase, the story tests fail and the one fix attempt       *)
(* succeeds: the call returns {phase: fix, tests_pass: true, fix_applied:  *)
(* true, blocked: false} and the tracked phase of the story is fix.        *)
(***************************************************************************)
C3_FixSuccessResult ==
    (/\ InStoryLoop("implement")
     /\ FirstStoryRun("fail")
     /\ FixReran("attempt_fix_with_context", "pytest_story", "pass"))
    => /\ result = Return([story_id |-> call.story_id, phase |-> "fix",
                           tests_pass |-> TRUE, fix_applied |-> TRUE,
                           blocked |-> FALSE])
       /\ get_current_phase(phase_storage, call.story_id) = "fix"

C3_Witness ==
    /\ InStoryLoop("implement")
    /\ FirstStoryRun("fail")
    /\ FixReran("attempt_fix_with_context", "pytest_story", "pass")
    /\ result.kind = "return"

(***************************************************************************)
(* C5: TEST phase, whatever the test run says (pass or fail): the phase    *)
(* test is recorded, {tests_pass: <outcome>, blocked: false} is returned,  *)
(* nothing is raised and no fix is invoked.                                *)
(***************************************************************************)
C5_TestPhaseNeverBlocks ==
    (InStoryLoop("test") /\ call.exists)
    => /\ Len(StoryRuns) = 1
       /\ result = Return([story_id |-> call.story_id, phase |-> "test",
                           tests_pass |-> (StoryRuns[1].arg = "pass"),
                           blocked |-> FALSE])
       /\ get_current_phase(phase_storage, call.story_id) = "test"
       /\ Events("attempt_fix_with_context") = {}

C5_Witness ==
    /\ InStoryLoop("test")
    /\ FirstStoryRun("pass")
    /\ result.kind = "return"
    /\ result.val.tests_pass

(***************************************************************************)
(* C6: with the story's test file missing, execute_story_loop in the TEST  *)
(* and in the IMPLEMENT phase raises FileNotFoundError to the caller; no   *)
(* fix is invoked and nothing is returned.                                 *)
(***************************************************************************)
C6_MissingTestFileIsFatal ==
    (call.fn = "execute_story_loop" /\ call.phase \in {"test", "implement"}
     /\ ~call.exists)
    => /\ result.kind = "raise"
       /\ result.exc = "FileNotFoundError"
       /\ Events("attempt_fix_with_context") = {}
       /\ StoryRuns = << >>

C6_Witness ==
    /\ InStoryLoop("implement")
    /\ ~call.exists
    /\ result.kind = "raise"
    /\ result.exc = "FileNotFoundError"

(***************************************************************************)
(* C7: execute_story_with_regression, the story tests fail: the regression *)
(* suite is not run, no regression fix is attempted, and the result is     *)
(* {tests_pass: false, regression_pass: false, ready_for_commit: false}.   *)
(***************************************************************************)
C7_NoRegressionAfterStoryFailure ==
    (InWithRegression /\ FirstStoryRun("fail"))
    => /\ Events("pytest_regression") = {}
       /\ Events("attempt_regression_fix") = {}
       /\ result = Return([story_id |-> call.story_id, tests_pass |-> FALSE,
                           regression_pass |-> FALSE,
                           ready_for_commit |-> FALSE])

C7_Witness ==
    /\ InWithRegression
    /\ FirstStoryRun("fail")
    /\ result.kind = "return"
    /\ ~result.val.ready_for_commit

(***************************************************************************)
(* C8: the story tests pass and the regression suite fails: exactly one    *)
(* regression fix is attempted, with the story id, the captured regression *)
(* output and error type "regression_failure"; if it succeeds the result   *)
(* is ready_for_commit with fix_applied and regression_pass; on no path is *)
(* there a second fix.                                                     *)
(***************************************************************************)
C8_OneRegressionFix ==
    InWithRegression =>
        LET fixes == Events("attempt_regression_fix")
        IN  /\ Cardinality(fixes) = IF FirstRegressionRun("fail") THEN 1 ELSE 0
            /\ Events("attempt_fix_with_context") = {}
            /\ \A i \in fixes :
                  /\ FirstStoryRun("pass")
                  /\ trace[i].story = call.story_id
                  /\ trace[i].arg = "regression_failure"
                  /\ GotCapturedOutput(i, "pytest_regression")
            /\ FixReran("attempt_regression_fix", "pytest_regression", "pass")
                  => result = Return([story_id |-> call.story_id,
                                      tests_pass |-> TRUE,
                                      regression_pass |-> TRUE,
                                      ready_for_commit |-> TRUE,
                                      fix_applied |-> TRUE])

C8_Witness ==
    /\ InWithRegression
    /\ FirstStoryRun("pass")
    /\ FirstRegressionRun("fail")
    /\ FixReran("attempt_regression_fix", "pytest_regression", "pass")
    /\ result.kind = "return"

(***************************************************************************)
(* C9: the one regression fix attempt fails: a RuntimeError is raised that *)
(* contains "Story <id> broke regression test <name>" and asks for human   *)
(* intervention, <name> being the first failing regression test of the     *)
(* captured output, "unknown" when there is none.                          *)
(***************************************************************************)
RECURSIVE C9_FirstFailingRegressionTest(_, _)
C9_FirstFailingRegressionTest(out, i) ==
    IF i > Len(out) THEN "unknown"
    ELSE IF HasFailed(out[i]) /\ HasRegressionPath(out[i]) THEN RegressionTest
    ELSE C9_FirstFailingRegressionTest(out, i + 1)

C9_RegressionFixFailureMessage ==
    (InWithRegression
     /\ FixReran("attempt_regression_fix", "pytest_regression", "fail"))
    => /\ result.kind = "raise"
       /\ result.exc = "RuntimeError"
       /\ \A i \in Events("attempt_regression_fix") :
             Contains(result.msg,
                      <<"Story", call.story_id, "broke regression test",
                        C9_FirstFailingRegressionTest(trace[i].out, 1)>>)
       /\ Contains(result.msg, <<"Human intervention required">>)

(***************************************************************************)
(* C10: without tests/regression, run_regression_tests returns True and    *)
(* runs nothing; a story whose own tests pass is then ready_for_commit     *)
(* with no fix attempted.                                                  *)
(***************************************************************************)
C10_AbsentRegressionDirPasses ==
    /\ (call.fn = "run_regression_tests" /\ ~call.dir_exists)
          => result = Return(TRUE) /\ trace = << >>
    /\ (InWithRegression /\ ~call.dir_exists /\ FirstStoryRun("pass"))
          => /\ result = Return([story_id |-> call.story_id,
                                 tests_pass |-> TRUE, regression_pass |-> TRUE,
                                 ready_for_commit |-> TRUE])
             /\ Events("pytest_regression") = {}
             /\ Events("attempt_regression_fix") = {}

C10_Witness ==
    /\ InWithRegression
    /\ ~call.dir_exists
    /\ FirstStoryRun("pass")
    /\ result.kind = "return"
    /\ result.val.ready_for_commit

(***************************************************************************)
(* C4: for every story main processes, the tracked phase only advances     *)
(* test -> implement -> fix, and once the story is DONE (its tests         *)
(* verified) or BLOCKED under the current PRD, no further phase is tracked *)
(* for it and no further run of its tests or code-agent call for it is     *)
(* made.  A story id met again under another PRD is another story and may  *)
(* start at test.  Runs of the regression suite are not calls for the      *)
(* story.                                                                  *)
(***************************************************************************)
StoryLevelOps == {"track_phase", "pytest_story", "execute_test_generation",
                  "execute_implementation", "attempt_fix_with_context"}
IsFinished(s) == \E how \in {"DONE", "BLOCKED"} : <<state.current_prd, s, how>> \in finished
PhaseAdvances == {<<"test", "implement">>, <<"implement", "fix">>}

C4_PhasesAdvanceThenStop ==
    [][\A s \in Stories :
          /\ phase_storage'[s] # phase_storage[s]
                => \/ <<phase_storage[s], phase_storage'[s]>> \in PhaseAdvances
                   \/ phase_storage'[s] = "test" /\ ~IsFinished(s)
          /\ IsFinished(s)
                => /\ phase_storage'[s] = phase_storage[s]
                   /\ \A i \in 1..Len(trace') :
                         ~(trace'[i].story = s /\ trace'[i].op \in StoryLevelOps)]_vars

(***************************************************************************)
(* C11: a regression-suite run that exceeds its timeout is a regression    *)
(* failure: run_regression_tests returns False (it does not raise), and    *)
(* execute_story_with_regression goes on to the one regression fix.        *)
(***************************************************************************)
C11_TimeoutIsRegressionFailure ==
    /\ (call.fn = "run_regression_tests" /\ FirstRegressionRun("timeout"))
          => result = Return(FALSE)
    /\ (InWithRegression /\ FirstRegressionRun("timeout"))
          => Events("attempt_regression_fix") # {}

(***************************************************************************)
(* C12: with tests/regression there and the run ending in time,            *)
(* run_regression_tests returns True exactly for exit code 0 or the "no    *)
(* tests collected" code 5; every other exit code gives False.             *)
(***************************************************************************)
C12_PassExactlyOnZeroOrNoTests ==
    (call.fn = "run_regression_tests" /\ call.dir_exists /\ call.outcome # TimedOut)
    => result = Return(ExitCodeOf(call.outcome) \in {0, 5})

C12_Witness ==
    /\ call.fn = "run_regression_tests"
    /\ call.dir_exists
    /\ call.outcome = "rc5"
    /\ result = Return(TRUE)

(***************************************************************************)
(* C13: after any sequence of load_next_prd, mark_story_complete and       *)
(* increment_session_count from the default state, for every PRD story     *)
(* list, remaining_stories and completed_stories have no story id in       *)
(* common.                                                                 *)
(***************************************************************************)
C13_RemainingAndCompletedDisjoint ==
    \A s \in Stories :
        ~(InSeq(s, state.remaining_stories) /\ InSeq(s, state.completed_stories))

(***************************************************************************)
(* C14: after any such sequence, current_story is None exactly when        *)
(* remaining_stories is empty, and otherwise it is one of the remaining    *)
(* stories.                                                                *)
(***************************************************************************)
C14_CurrentStoryTracksRemaining ==
    /\ (state.current_story = None) <=> (state.remaining_stories = << >>)
    /\ state.current_story # None => InSeq(state.current_story, state.remaining_stories)

C14_Witness ==
    /\ trace # << >>
    /\ trace[1].op = "mark_story_complete"
    /\ state.completed_stories # << >>
    /\ state.remaining_stories # << >>
    /\ state.current_story = Head(state.remaining_stories)

(***************************************************************************)
(* C15: at every instant, a crash at any step of _save_state included,     *)
(* state.json holds the complete previous state or the complete new one,   *)
(* never a partial write; it changes only in the rename of the temp file,  *)
(* and then to the new state.                                              *)
(***************************************************************************)
C15_FileIsPreviousOrNew ==
    /\ state_file \notin {EmptyFile, PartialFile}
    /\ state_file = saving.previous \/ state_file = state

C15_StateFileAtomic ==
    /\ []C15_FileIsPreviousOrNew
    /\ [][state_file' # state_file
             => /\ saving.pc = "replace"
                /\ saving'.temp_file = NoFile
                /\ state_file' = state]_vars

C15_Witness ==
    /\ saving.pc = "crashed"
    /\ saving.temp_file = PartialFile
    /\ saving.previous # NoFile
    /\ state_file = saving.previous
    /\ state_file # state

C17_Without(q, story_id) ==
    LET Other(x) == x # story_id IN SelectSeq(q, Other)

C17_MarkStoryCompleteMoves ==
    [][(trace' # << >> /\ trace'[1].op = "mark_story_complete")
          => LET story_id == trace'[1].story
             IN  /\ ~InSeq(story_id, state'.remaining_stories)
                 /\ InSeq(story_id, state'.completed_stories)
                 /\ state'.current_story =
                       IF state'.remaining_stories = << >> THEN None
                       ELSE Head(state'.remaining_stories)
                 /\ state'.remaining_stories
                       = C17_Without(state.remaining_stories, story_id)
                 /\ state_file' = state']_vars

(***************************************************************************)
(* C18: mark_story_complete is idempotent: for every state and story id,   *)
(* a second call with the same id leaves current_story, remaining_stories  *)
(* and completed_stories as the first call left them, and                  *)
(* completed_stories holds no id twice.                                    *)
(***************************************************************************)
C18_MarkStoryCompleteIdempotent ==
    \A story_id \in Stories :
        LET once  == mark_story_complete(state, story_id)
            twice == mark_story_complete(once, story_id)
        IN  /\ twice.current_story = once.current_story
            /\ twice.remaining_stories = once.remaining_stories
            /\ twice.completed_stories = once.completed_stories
            /\ \A i, j \in 1..Len(once.completed_stories) :
                  once.completed_stories[i] = once.completed_stories[j] => i = j

(***************************************************************************)
(* C19: load_next_prd takes the current PRD file out of prds/ and writes   *)
(* to the archive only if the state passes the structural integrity check  *)
(* and every story id the PRD lists is in completed_stories at that        *)
(* moment; otherwise the file stays in prds/ and the archive is untouched. *)
(***************************************************************************)
C19_ArchiveOnlyWhenVerified ==
    [][\A p \in PrdNames :
          ((p \in prds /\ p \notin prds') \/ archive'[p] # archive[p])
          => /\ p = state.current_prd
             /\ verify_state_integrity(state)
             /\ \A i \in 1..Len(prd_stories[p]) :
                   InSeq(prd_stories[p][i], state.completed_stories)]_vars

C19_Witness ==
    /\ trace # << >>
    /\ trace[1].op = "load_next_prd"
    /\ \E p \in PrdNames :
          /\ prd_stories[p] # << >>
          /\ p \notin prds
          /\ archive[p] = "complete"

(***************************************************************************)
(* C20: load_next_prd called while the current PRD still has remaining     *)
(* stories skips archiving, leaves the PRD file in prds/ and does not      *)
(* advance the queue: current_prd and the recorded completed and remaining *)
(* stories are kept.                                                       *)
(***************************************************************************)
C20_IncompletePrdIsKept ==
    [][(/\ trace' # << >>
        /\ trace'[1].op = "load_next_prd"
        /\ state.current_prd # None
        /\ state.remaining_stories # << >>)
          => /\ prds' = prds
             /\ archive' = archive
             /\ state'.current_prd = state.current_prd
             /\ state'.completed_stories = state.completed_stories
             /\ state'.remaining_stories = state.remaining_stories]_vars

(***************************************************************************)
(* C21: when _archive_prd_atomic fails (at the copy, the verification or   *)
(* the delete of the source) it returns its error without raising, the     *)
(* source PRD is still in prds/, and no copy of it, partial or whole, is   *)
(* left in the archive directory.                                          *)
(***************************************************************************)
C21_FailedArchiveLeavesNothing ==
    \A i \in 1..Len(trace) :
        (trace[i].op = "_archive_prd_atomic" /\ ~trace[i].arg)
        => /\ trace[i].story \in prds
           /\ archive[trace[i].story] = None

(***************************************************************************)
(* C22: after a successful archive of the completed current PRD, with a    *)
(* PRD file left in prds/, load_next_prd has made the first of the files   *)
(* left in prds/ (by name; never the archived one) the current PRD, its    *)
(* first story id the current story (None if it lists none), all its       *)
(* story ids in PRD order the remaining stories, completed_stories empty,  *)
(* and has saved that state.                                               *)
(***************************************************************************)
C22_Archived ==
    /\ Len(trace) = 2
    /\ trace[1].op = "load_next_prd"
    /\ trace[2].op = "_archive_prd_atomic"
    /\ trace[2].arg

MoveCalled == call.fn = "move_test_to_regression"

\* the step of the call that failed, if one did
MoveFailed ==
    \/ call.source = None
    \/ call.fault \in {"mkdir", "not_a_directory"} /\ ~call.dir_exists
    \/ call.fault \in {"copy", "copy_partial", "unlink"}

\* C23: a call on an existing test file in which no step fails returns
\* true, leaves in tests/regression/ a file with the content the source had,
\* leaves no source in tests/, and the regression directory exists afterwards
\* even when it did not before.
C23_MoveSucceeds ==
    (MoveCalled /\ call.source # None /\ ~MoveFailed)
    => /\ result = Return(TRUE)
       /\ regression.dir
       /\ regression.files[call.story_id] = call.source
       /\ tests[call.story_id] = None

C23_Witness ==
    /\ MoveCalled
    /\ call.fault = "none"
    /\ call.source = "v2"
    /\ ~call.dir_exists
    /\ regression.dir
    /\ regression.files[call.story_id] = "v2"
    /\ tests[call.story_id] = None
    /\ result = Return(TRUE)

\* C24: whatever step fails, the content the test had is still in tests/ or
\* in tests/regression/ after the call, and the source is gone only if the
\* copy holds it; a failed copy returns false with the source as it was, a
\* failed delete returns false with the content in both places.
C24_TestNeverLost ==
    (MoveCalled /\ call.source # None)
    => /\ \/ tests[call.story_id] = call.source
          \/ regression.files[call.story_id] = call.source
       /\ tests[call.story_id] \in {call.source, None}
       /\ tests[call.story_id] = None
          => regression.files[call.story_id] = call.source
       /\ call.fault \in {"copy", "copy_partial"}
          => /\ result = Return(FALSE)
             /\ tests[call.story_id] = call.source
       /\ call.fault = "unlink"
          => /\ result = Return(FALSE)
             /\ tests[call.story_id] = call.source
             /\ regression.files[call.story_id] = call.source

C24_Witness ==
    /\ MoveCalled
    /\ call.fault = "copy_partial"
    /\ call.source = "v1"
    /\ tests[call.story_id] = "v1"
    /\ regression.files[call.story_id] = PartialTest
    /\ result = Return(FALSE)

\* C25: a call for a story whose test was migrated before (no source in
\* tests/, a copy in tests/regression/) returns a value, and leaves tests/
\* without the file and the regression copy with the content it had.
C25_SecondMoveKeepsOneCopy ==
    (MoveCalled /\ call.source = None /\ call.destination \in TestContents)
    => /\ result.kind = "return"
       /\ tests[call.story_id] = None
       /\ regression.files[call.story_id] = call.destination

C25_Witness ==
    /\ MoveCalled
    /\ call.source = None
    /\ call.destination = "v1"
    /\ call.fault = "none"
    /\ regression.files[call.story_id] = "v1"
    /\ tests[call.story_id] = None

\* C26: a call in which the test file is missing, the regression path cannot
\* be made a directory, the copy fails or the delete fails returns false (it
\* returns, it does not raise).
C26_FailuresReturnFalse ==
    (MoveCalled /\ MoveFailed) => result = Return(FALSE)

C26_Witness ==
    /\ MoveCalled
    /\ call.fault = "not_a_directory"
    /\ call.source = "v1"
    /\ ~call.dir_exists
    /\ ~regression.dir
    /\ result = Return(FALSE)

\* C27: for every story id, with separators or parent-directory sequences
\* in it or not, each file the call reads, writes or deletes is
\* tests/<name> or tests/regression/<name> for one path component <name>
\* that is neither "." nor "..", and the directories it tests or makes are
\* tests/ and tests/regression/.
IsFileName(part) ==
    /\ Len(part) > 0
    /\ part \notin {<<".">>, <<".", ".">>}
    /\ \A i \in 1..Len(part) : ~IsSeparator(part[i])

DirectChildOf(dir, path) ==
    /\ Len(path) = Len(dir) + 1
    /\ SubSeq(path, 1, Len(dir)) = dir
    /\ IsFileName(path[Len(path)])

KeepsEarlierEntries ==
    /\ Len(history') >= Len(history)
    /\ SubSeq(history', 1, Len(history)) = history

LogKind(fn) ==
    CASE fn = "log_completion" -> "Complete"
      [] fn = "log_block" -> "BLOCKED"
      [] fn = "log_test_generation" -> "Tests Generated"

C28_Step ==
    /\ KeepsEarlierEntries
    /\ (call = Idle /\ call'.fn \in {"log_completion", "log_block", "log_test_generation"})
       => /\ Len(history') = Len(history) + 1
          /\ history'[Len(history')].kind = LogKind(call'.fn)
          /\ history'[Len(history')].story = call'.story_id
    /\ (call = Idle /\ call'.fn = "HistoryLogger")
       => history' = IF history = << >> THEN <<HistoryHeader>> ELSE history
    /\ call # Idle => history' = history

C28_HistoryAppendOnly == [][C28_Step]_vars

C28_Witness ==
    /\ call.fn = "HistoryLogger"
    /\ call.exists
    /\ Len(history) = 3
    /\ history[1] = HistoryHeader
    /\ history[2].kind = "BLOCKED"
    /\ history[3].kind = "Complete"

\* C29: in main(), a story's commit follows its regression success, its
\* test migration follows the commit, the state store records completion
\* after the migration, the history entry is appended after that and by no
\* other step, and history.md holds at most one completion entry for a
\* story of a PRD.
CompletionEntries(prd, story_id) ==
    {i \in 1..Len(history) :
        /\ history[i].kind = "Complete"
        /\ history[i].prd = prd
        /\ history[i].story = story_id}

C29_EachStepOnce ==
    \A prd \in PrdNames, s \in Stories : Cardinality(CompletionEntries(prd, s)) <= 1

C29_StepOrder ==
    /\ pc' = "commit" /\ pc # "commit" => pc = "regression"
    /\ commits' # commits => pc = "commit" /\ pc' = "move"
    /\ pc' = "move" /\ pc # "move" => pc = "commit"
    /\ regression' # regression => pc = "move" /\ pc' = "complete"
    /\ pc' = "complete" /\ pc # "complete" => pc = "move"
    /\ Len(state'.completed_stories) > Len(state.completed_stories)
       => pc = "complete" /\ pc' = "log"
    /\ pc' = "log" /\ pc # "log" => pc = "complete"
    /\ (Len(history') > Len(history) /\ history'[Len(history')].kind = "Complete")
       => pc = "log"

C29_CompletionStepsInOrderOnce == []C29_EachStepOnce /\ [][C29_StepOrder]_vars

\* C30: main() moves a story's test into tests/regression/ only in a pass
\* whose git commit succeeded.
C30_Step ==
    (pc = "move" /\ regression'.files # regression.files)
    => /\ Len(trace) = 2
       /\ trace[2].op = "git"
       /\ trace[2].arg = "commit"

C30_MigrationOnlyAfterCommit == [][C30_Step]_vars

\* C31: a run of main() that logged a block has ended with a non-zero
\* status, and a run that ended with status zero has left no PRD file in
\* prds/.
C31_Blocked ==
    /\ history # << >>
    /\ history[Len(history)].kind = "BLOCKED"

C31_ExitStatus ==
    /\ C31_Blocked => (pc = "exit" /\ exit_code = 1)
    /\ (pc = "exit" /\ exit_code = 0) => prds = {}

\* C32: track_phase with test, implement or fix returns and leaves that
\* phase recorded for the story, every other story as it was; with any other
\* phase it raises ValueError and leaves the map as it was.  The map changes
\* in no other step.  get_current_phase returns what the map holds for the
\* story, None for a story never tracked, and does not raise.
C32_Call ==
    /\ call.fn = "track_phase" /\ call.phase \in {"test", "implement", "fix"}
       => /\ result = Return(None)
          /\ phase_storage = [call.before EXCEPT ![call.story_id] = call.phase]
    /\ call.fn = "track_phase" /\ call.phase \notin {"test", "implement", "fix"}
       => /\ result.kind = "raise"
          /\ result.exc = "ValueError"
          /\ phase_storage = call.before
    /\ call.fn = "get_current_phase"
       => /\ result = Return(phase_storage[call.story_id])
          /\ phase_storage = call.before
          /\ ~call.exists => result = Return(None)

C32_Step ==
    phase_storage' # phase_storage
    => /\ call = Idle
       /\ call'.fn = "track_phase"
       /\ call'.phase \in {"test", "implement", "fix"}

C33_NoMetaRetry ==
    (InStoryLoop("implement") /\ FirstStoryRun("fail"))
    => /\ Cardinality(Events("pytest_story")) <= 2
       /\ Cardinality(Events("attempt_fix_with_context")) = 1
       /\ result.kind = "return"
          <=> FixReran("attempt_fix_with_context", "pytest_story", "pass")

\* C34: in main(), completed_stories grows only by the story of the session
\* in hand, in a session that reached the commit through a passing run of
\* the story's tests (the verification run or the run inside the one fix)
\* and then a passing regression stage (no suite, a passing run, or a
\* passing run inside the one regression fix); and when a run has ended
\* BLOCKED on a story, the run has not marked that story of that PRD
\* complete nor committed it.
LastIs(tr, op, arg) ==
    /\ tr # << >>
    /\ tr[Len(tr)].op = op
    /\ tr[Len(tr)].arg = arg

C34_InSession == pc \in {"testgen", "implement", "regression", "commit", "move", "complete"}

C34_Step ==
    /\ (pc' = "regression" /\ pc # "regression")
       => /\ pc = "implement"
          /\ LastIs(trace', "pytest_story", "pass")
          /\ trace'[Len(trace')].story = locals.current_story
    /\ (pc' = "commit" /\ pc # "commit")
       => /\ pc = "regression"
          /\ trace' = << >> \/ LastIs(trace', "pytest_regression", "pass")
    /\ (pc' = "move" /\ pc # "move") => pc = "commit"
    /\ (pc' = "complete" /\ pc # "complete") => pc = "move"
    /\ C34_InSession
       => /\ locals' = locals
          /\ state'.session_count = state.session_count
          /\ locals.current_story = state.current_story
    /\ commits' # commits
       => /\ pc = "commit"
          /\ commits' = Append(commits, locals.current_story)
    /\ state'.completed_stories # state.completed_stories /\ pc # "loop"
       => /\ pc = "complete"
          /\ state'.completed_stories
             = Append(state.completed_stories, locals.current_story)

C34_BlockedStoryNotCompleted ==
    C31_Blocked
    => LET e == history[Len(history)]
       IN  /\ CompletionEntries(e.prd, e.story) = {}
           /\ ~InSeq(e.story, state.completed_stories)
           /\ state_file = state

C34_CompleteOnlyAfterPasses == []C34_BlockedStoryNotCompleted /\ [][C34_Step]_vars

\* C35: when execute_story_with_regression reports ready_for_commit, a
\* passing run of the story's own tests comes after every fix invocation of
\* the call.
FixInvocations ==
    Events("attempt_regression_fix") \cup Events("attempt_fix_with_context")

C35_StoryTestsVerifiedAfterFix ==
    (InWithRegression /\ result.kind = "return" /\ result.val.ready_for_commit)
    => \A i \in FixInvocations :
          \E j \in (i + 1)..Len(trace) :
              /\ trace[j].op = "pytest_story"
              /\ trace[j].arg = "pass"

\* C36: the step of main() in which a story ends BLOCKED (its test file was
\* not created, its tests fail after the one fix, or the regression suite
\* fails after the one regression fix) appends exactly one BLOCKED entry for
\* that story to history.md, ends with status 1, and leaves the saved state
\* with the story as current_story, first of remaining_stories and not in
\* completed_stories.
C36_EndsBlocked ==
    /\ pc' = "exit"
    /\ \/ pc \in {"testgen", "implement"}
       \/ pc = "regression" /\ LastIs(trace', "pytest_regression", "fail")

C36_Step ==
    C36_EndsBlocked
    => /\ Len(history') = Len(history) + 1
       /\ SubSeq(history', 1, Len(history)) = history
       /\ history'[Len(history')].kind = "BLOCKED"
       /\ history'[Len(history')].story = locals.current_story
       /\ history'[Len(history')].prd = locals.current_prd
       /\ exit_code' = 1
       /\ state_file' = state'
       /\ state'.current_prd = locals.current_prd
       /\ state'.current_story = locals.current_story
       /\ state'.remaining_stories # << >>
       /\ Head(state'.remaining_stories) = locals.current_story
       /\ ~InSeq(locals.current_story, state'.completed_stories)

C36_BlockLoggedStateKept == [][C36_Step]_vars

\* C37: when main() finds every story of the current PRD completed and
\* calls load_next_prd, the PRD that becomes current is another one, and
\* never one that was archived: no PRD is loaded a second time in the run,
\* whether its archiving succeeded, failed or was skipped.
C37_LoadsNext ==
    /\ pc = "loop"
    /\ state.current_prd # None
    /\ state.current_story = None

C37_Step ==
    C37_LoadsNext
    => /\ state'.current_prd # state.current_prd
       /\ state'.current_prd # None => archive'[state'.current_prd] # "complete"

C37_PrdLoadedAtMostOnce == [][C37_Step]_vars

\* C38: with the environment doing its part, main() eventually exits with
\* status zero, prds/ empty, every PRD of the queue archived whole and a
\* completion logged for every story of every PRD.
C38_AllDone ==
    /\ pc = "exit"
    /\ exit_code = 0
    /\ prds = {}
    /\ state.current_prd = None
    /\ state.remaining_stories = << >>
    /\ \A p \in PrdNames :
          prd_stories[p] # << >>
          => /\ archive[p] = "complete"
             /\ \A i \in 1..Len(prd_stories[p]) :
                   /\ CompletionEntries(p, prd_stories[p][i]) # {}
                   /\ <<p, prd_stories[p][i], "DONE">> \in finished

C39_PrdNeverLost ==
    \A p \in PrdNames :
        prd_stories[p] # << >> => (p \in prds \/ archive[p] = "complete")

C39_Witness ==
    /\ pc = "crashed"
    /\ locals.current_prd = "a.json"
    /\ "a.json" \in prds
    /\ archive["a.json"] = "complete"
    /\ "b.json" \notin prds
    /\ archive["b.json"] = "complete"

\* C40: no step of main() removes a test file from tests/regression/ or
\* changes the content of one that is there.
C40_Step ==
    \A s \in Stories :
        regression.files[s] # None => regression'.files[s] = regression.files[s]

C40_RegressionSuiteOnlyGrows == [][C40_Step]_vars

====
